---- MODULE Spec2Model ----
(***************************************************************************)
(* A model of the IPAM address lifecycle of the DCMS application:          *)
(* models/ipam.py (IPAddress.assign, IPAddress.release, the before_update  *)
(* hook, process_quarantine_expirations, check_duplicate_ip) and the       *)
(* request handlers of routes/ipam.py that drive them (assign_ip,          *)
(* bulk_assign, release_ip, add_range/create_ips_for_range, index).        *)
(*                                                                         *)
(* Storage.  The application runs on SQLite (app.py:28) through one        *)
(* SQLAlchemy session per request.  A SELECT returns committed rows; the   *)
(* first INSERT/UPDATE of a request takes the database write lock, which   *)
(* is held until COMMIT or ROLLBACK.  Nothing another request does can     *)
(* therefore fall between a request's first write and its commit, and the  *)
(* model runs that stretch as one step.  The SELECTs a request issues      *)
(* before its first write are separate steps: other requests may commit    *)
(* between them, and the object a request loaded may be stale when it is   *)
(* finally written.  An UPDATE writes only the columns whose value differs *)
(* from the loaded one (SQLAlchemy's attribute history), WHERE id = ?,     *)
(* with no version check.                                                  *)
(*                                                                         *)
(* Time.  datetime.utcnow() is the variable now, read once per step; it    *)
(* moves forward by the action Tick.  The unit is 1/TicksPerDay of a day.  *)
(*                                                                         *)
(* Requests.  Each caller sends one request at a time; sent counts them.   *)
(* A handler's answer stays in req[c] (pc[c] = "response") until the       *)
(* client takes it.                                                        *)
(*                                                                         *)
(* Storage failures.  The unique index on ip_addresses.address refuses an  *)
(* INSERT of an address the table holds.  bulk_assign, whose handler has a *)
(* path for it, is also followed when the storage layer raises any other   *)
(* exception between its first write and its commit.                       *)
(*                                                                         *)
(* Specifications.  Spec starts from the empty installation.  SpecExpiry   *)
(* starts with one address released into quarantine.  SpecMaterialize adds *)
(* ranges of several shapes to the empty installation.  SpecBulkForm       *)
(* submits bulk forms of several sizes, SpecSuggest asks for a suggestion  *)
(* over tables of three records, SpecAssign calls IPAddress.assign with    *)
(* keyword arguments of several kinds, SpecHistory asks for the ledger     *)
(* view of ledgers of several lengths.  SpecSweep is Spec with one client  *)
(* and a dashboard that is requested for ever, under fairness.             *)
(***************************************************************************)
EXTENDS Integers, Sequences, FiniteSets, TLC

VARIABLES ips, hist, ranges, now, pc, req, loaded, sent

vars == <<ips, hist, ranges, now, pc, req, loaded, sent>>

----------------------------------------------------------------------------
(* Bounds of the model *)

NCallers == 2
MaxRequests == 3
MaxPeriods == 1
TicksPerDay == 2
MaxOutside == 1

(* timedelta(days=90), models/ipam.py:418 *)
QUARANTINE_DAYS == 90

Callers == 1..NCallers

None == <<>>
Some(v) == <<v>>
Val(o) == o[1]

----------------------------------------------------------------------------
(* Addresses are the numeric values of dotted quads (ipaddress.ip_address) *)

IP(a, b, c, d) == ((a * 256 + b) * 256 + c) * 256 + d

(* str(current).endswith('.0') / endswith('.255'): the last octet *)
LastOctet(addr) == addr % 256

(* 10.0.1.0 .. 10.0.1.2 is the interval of the range form below; the      *)
(* MaxOutside addresses after it lie in no range.                          *)
AddrLo == IP(10, 0, 1, 0)
AddrHi == IP(10, 0, 1, 2) + MaxOutside
Addrs == AddrLo..AddrHi

(* request.remote_addr, the actor every handler passes *)
remote_addr == "127.0.0.1"

(* The clock's instants: around every multiple of the quarantine period *)
QuarantineTicks == QUARANTINE_DAYS * TicksPerDay
Instants == {t \in {k * QuarantineTicks + j : k \in 0..MaxPeriods, j \in {0, 1}} : t >= 0}

(* timedelta.days: whole days, rounded down *)
Days(delta) == delta \div TicksPerDay

----------------------------------------------------------------------------
(* models/ipam.py: the ip_addresses row (IPAddress), id = position in ips  *)

NewIPAddress(address, ip_range_id, status) ==
    [address |-> address,
     ip_range_id |-> Some(ip_range_id),
     ip_pool_id |-> None,
     status |-> status,
     assigned_to_type |-> None,
     assigned_to_id |-> None,
     assignment_date |-> None,
     assigned_by |-> None,
     release_date |-> None,
     released_by |-> None,
     quarantine_until |-> None,
     vps_hostname |-> None,
     hypervisor_id |-> None,
     mac_address |-> None,
     interface_name |-> None,
     ptr_record |-> None,
     is_primary |-> FALSE,
     connection_type |-> None,
     notes |-> None]

(* models/ipam.py: the ip_history row (IPHistory) *)
IPHistory(ip_address_id, action, assigned_to_type, assigned_to_id, performed_by, performed_at, notes) ==
    [ip_address_id |-> ip_address_id,
     action |-> action,
     assigned_to_type |-> assigned_to_type,
     assigned_to_id |-> assigned_to_id,
     performed_by |-> performed_by,
     performed_at |-> performed_at,
     notes |-> notes]

(* for key, value in kwargs.items(): if hasattr(self, key): setattr(...)   *)
SetKwargs(self, kwargs) ==
    [f \in DOMAIN self |-> IF f \in DOMAIN kwargs THEN kwargs[f] ELSE self[f]]

(* IPAddress.assign 366-388: the fields it sets, the keyword arguments and *)
(* the history row it adds to the session                                  *)
assign_apply(self, id, device_type, device_id, user, kwargs, t) ==
    [raised |-> "ok", remaining |-> 0,
     self |-> SetKwargs([self EXCEPT !.status = "assigned",
                                     !.assigned_to_type = Some(device_type),
                                     !.assigned_to_id = Some(device_id),
                                     !.assignment_date = Some(t),
                                     !.assigned_by = Some(user)], kwargs),
     history |-> <<IPHistory(id, "assigned", Some(device_type), Some(device_id),
                             Some(user), t, None)>>]

(* assign without the test of line 359 *)
assign_without_assigned_test(self, id, device_type, device_id, user, kwargs, t) ==
    IF self.status = "quarantine" /\ self.quarantine_until # None
       /\ t < Val(self.quarantine_until)
    THEN [raised |-> "quarantine_active",
          remaining |-> Days(Val(self.quarantine_until) - t),
          self |-> self, history |-> <<>>]
    ELSE assign_apply(self, id, device_type, device_id, user, kwargs, t)

(* assign with utcnow() <= quarantine_until at line 362 *)
assign_deadline_inclusive(self, id, device_type, device_id, user, kwargs, t) ==
    IF self.status = "assigned"
    THEN [raised |-> "already_assigned", remaining |-> 0, self |-> self, history |-> <<>>]
    ELSE IF self.status = "quarantine" /\ self.quarantine_until # None
            /\ t <= Val(self.quarantine_until)
    THEN [raised |-> "quarantine_active",
          remaining |-> Days(Val(self.quarantine_until) - t),
          self |-> self, history |-> <<>>]
    ELSE assign_apply(self, id, device_type, device_id, user, kwargs, t)

(* IPAddress.assign: what it raises (or "ok"), the object afterwards and   *)
(* the history rows it adds to the session.  t is datetime.utcnow().       *)
(* Comparing utcnow() with a quarantine_until of None raises TypeError.    *)
assign(self, id, device_type, device_id, user, kwargs, t) ==
    IF self.status = "assigned"
    THEN [raised |-> "already_assigned", remaining |-> 0, self |-> self, history |-> <<>>]
    ELSE IF self.status = "quarantine" /\ self.quarantine_until = None
    THEN [raised |-> "type_error", remaining |-> 0, self |-> self, history |-> <<>>]
    ELSE IF self.status = "quarantine" /\ t < Val(self.quarantine_until)
    THEN [raised |-> "quarantine_active",
          remaining |-> Days(Val(self.quarantine_until) - t),
          self |-> self, history |-> <<>>]
    ELSE assign_apply(self, id, device_type, device_id, user, kwargs, t)

(* release that sets the status and leaves quarantine_until as it was *)
release_apply_status_only(self, id, user, skip_quarantine, t) ==
    LET after == [self EXCEPT !.assigned_to_type = None,
                              !.assigned_to_id = None,
                              !.assignment_date = None,
                              !.release_date = Some(t),
                              !.released_by = Some(user),
                              !.status = IF ~skip_quarantine THEN "quarantine" ELSE "available"]
    IN [raised |-> "ok", self |-> after,
        history |-> <<IPHistory(id, "released", self.assigned_to_type, self.assigned_to_id,
                                Some(user), t, None)>>]

(* IPAddress.release 396-435: the fields it clears and sets, and the       *)
(* history row it adds to the session                                      *)
release_apply(self, id, user, skip_quarantine, t) ==
    LET cleared == [self EXCEPT !.assigned_to_type = None,
                                !.assigned_to_id = None,
                                !.assignment_date = None,
                                !.release_date = Some(t),
                                !.released_by = Some(user),
                                !.vps_hostname = None,
                                !.hypervisor_id = None,
                                !.mac_address = None,
                                !.interface_name = None,
                                !.is_primary = FALSE]
        after == IF ~skip_quarantine
                 THEN [cleared EXCEPT !.status = "quarantine",
                                      !.quarantine_until = Some(t + QuarantineTicks)]
                 ELSE [cleared EXCEPT !.status = "available",
                                      !.quarantine_until = None]
    IN [raised |-> "ok", self |-> after,
        history |-> <<IPHistory(id, "released", self.assigned_to_type, self.assigned_to_id,
                                Some(user), t,
                                IF ~skip_quarantine
                                THEN Some(<<"Quarantine until", after.quarantine_until>>)
                                ELSE Some(<<"No quarantine">>))>>]

(* release without the test of line 394 *)
release_without_assigned_test(self, id, user, skip_quarantine, t) ==
    release_apply(self, id, user, skip_quarantine, t)

(* release with the two branches of line 416 exchanged *)
release_branches_exchanged(self, id, user, skip_quarantine, t) ==
    IF self.status # "assigned"
    THEN [raised |-> "not_assigned", self |-> self, history |-> <<>>]
    ELSE release_apply(self, id, user, ~skip_quarantine, t)

(* IPAddress.release *)
release(self, id, user, skip_quarantine, t) ==
    IF self.status # "assigned"
    THEN [raised |-> "not_assigned", self |-> self, history |-> <<>>]
    ELSE release_apply(self, id, user, skip_quarantine, t)

(* The listener with utcnow() > quarantine_until at line 485 *)
ip_check_quarantine_strict(target, id, t) ==
    IF target.status = "quarantine" /\ target.quarantine_until # None
       /\ t > Val(target.quarantine_until)
    THEN [target |-> [target EXCEPT !.status = "available", !.quarantine_until = None],
          history |-> <<IPHistory(id, "quarantine_expired", None, None, None, t,
                                  Some(<<"Quarantine period completed">>))>>]
    ELSE [target |-> target, history |-> <<>>]

(* The before_update listener ip_check_quarantine, run on every object an  *)
(* UPDATE is flushed for: the object afterwards and the rows it adds.      *)
ip_check_quarantine(target, id, t) ==
    IF target.status = "quarantine" /\ target.quarantine_until # None
       /\ t >= Val(target.quarantine_until)
    THEN [target |-> [target EXCEPT !.status = "available", !.quarantine_until = None],
          history |-> <<IPHistory(id, "quarantine_expired", None, None, None, t,
                                  Some(<<"Quarantine period completed">>))>>]
    ELSE [target |-> target, history |-> <<>>]

(* UPDATE ip_addresses SET <the columns changed since the load> WHERE id   *)
UpdateRow(row, snap, obj) ==
    [f \in DOMAIN row |-> IF obj[f] # snap[f] THEN obj[f] ELSE row[f]]

(* The flush written as DELETE and INSERT (INSERT OR REPLACE): the row     *)
(* leaves its place and comes back as the newest row of the table          *)
FlushObject_replace(table, id, snap, obj, t) ==
    LET hooked == ip_check_quarantine(obj, id, t)
    IN [ips |-> [k \in 1..Len(table) |->
                    IF k < id THEN table[k]
                    ELSE IF k < Len(table) THEN table[k + 1]
                    ELSE UpdateRow(table[id], snap, hooked.target)],
        history |-> hooked.history]

(* session.flush() of one modified object: the hook, then the UPDATE.      *)
(* Gives the table and the history rows the hook added.                    *)
FlushObject(table, id, snap, obj, t) ==
    LET hooked == ip_check_quarantine(obj, id, t)
    IN [ips |-> [table EXCEPT ![id] = UpdateRow(table[id], snap, hooked.target)],
        history |-> hooked.history]

(* IPAddress.query.filter_by(address=...).first(): the row's id, or 0      *)
IdsOf(table, address) == {i \in 1..Len(table) : table[i].address = address}
FirstId(table, address) ==
    IF IdsOf(table, address) = {} THEN 0
    ELSE CHOOSE i \in IdsOf(table, address) : \A j \in IdsOf(table, address) : i <= j

(* The lookup restricted to assigned rows *)
check_duplicate_ip_assigned_only(table, address, exclude_id) ==
    LET found == {i \in IdsOf(table, address) :
                     /\ table[i].status = "assigned"
                     /\ (exclude_id = 0 \/ i # exclude_id)}
    IN IF found = {} THEN 0 ELSE CHOOSE i \in found : \A j \in found : i <= j

(* check_duplicate_ip(address, exclude_id): the id of the row found, or 0  *)
check_duplicate_ip(table, address, exclude_id) ==
    LET found == {i \in IdsOf(table, address) : exclude_id = 0 \/ i # exclude_id}
    IN IF found = {} THEN 0 ELSE CHOOSE i \in found : \A j \in found : i <= j

(* IPAddress.address.like('10.10.%') on the dotted text of an address *)
LikePrivate(address) == address \div (256 * 256) = 10 * 256 + 10

(* suggest_next_available_ip 556-567 with the scopes tested in the order   *)
(* VLAN, pool, private                                                     *)
SuggestQuery_vlan_first(table, rs, vlan_id, pool_id, connection_type) ==
    {i \in 1..Len(table) :
        /\ table[i].status = "available"
        /\ IF vlan_id # None
           THEN /\ table[i].ip_range_id # None
                /\ Val(table[i].ip_range_id) \in
                      {r \in 1..Len(rs) : rs[r].vlan_id = vlan_id}
           ELSE IF pool_id # None
           THEN table[i].ip_pool_id = pool_id
           ELSE IF connection_type = "private"
           THEN LikePrivate(table[i].address)
           ELSE TRUE}

(* suggest_next_available_ip 556-567: the rows the query selects.  An id   *)
(* that is not given is None.                                              *)
SuggestQuery(table, rs, vlan_id, pool_id, connection_type) ==
    {i \in 1..Len(table) :
        /\ table[i].status = "available"
        /\ IF pool_id # None
           THEN table[i].ip_pool_id = pool_id
           ELSE IF vlan_id # None
           THEN /\ table[i].ip_range_id # None
                /\ Val(table[i].ip_range_id) \in
                      {r \in 1..Len(rs) : rs[r].vlan_id = vlan_id}
           ELSE IF connection_type = "private"
           THEN LikePrivate(table[i].address)
           ELSE TRUE}

(* 570: query.first() -- no ORDER BY; SQLite walks idx_ip_status or         *)
(* idx_ip_pool and gives the matching row with the lowest id (0 for None)  *)
SuggestFirst(found) ==
    IF found = {} THEN 0 ELSE CHOOSE i \in found : \A j \in found : i <= j

(* suggest_next_available_ip() with its default arguments: the rows the    *)
(* query filter_by(status='available') selects, and the row first() gives  *)
(* (0 for None)                                                            *)
SuggestCandidates(table) == SuggestQuery(table, <<>>, None, None, "public")
suggest_next_available_ip(table) == SuggestFirst(SuggestCandidates(table))

(* The comparison written without its upper half: every address from      *)
(* start_ip upwards counts as inside                                       *)
validate_ip_in_range_lower_only(ip_addr, ip_range) ==
    ip_range.start_ip <= ip_addr

(* routes/ipam.py validate_ip_in_range *)
validate_ip_in_range(ip_addr, ip_range) ==
    ip_range.start_ip <= ip_addr /\ ip_addr <= ip_range.end_ip

(* The search that finds no range: the loop body never breaks *)
FindRange_none(rs, ip_addr) == 0

(* for range_obj in IPRange.query.all(): ... break -- the first range that *)
(* holds the address, or 0                                                 *)
FindRange(rs, ip_addr) ==
    LET holding == {r \in 1..Len(rs) : validate_ip_in_range(ip_addr, rs[r])}
    IN IF holding = {} THEN 0 ELSE CHOOSE r \in holding : \A q \in holding : r <= q

(* The address column declared without unique=True: no INSERT is refused   *)
UniqueViolation_no_index(table, address) == FALSE

(* The unique index on ip_addresses.address: an INSERT of an address the   *)
(* table holds raises IntegrityError                                       *)
UniqueViolation(table, address) == IdsOf(table, address) # {}

(* models/ipam.py Network: the block "a.b.c.d/cidr" a range is filed under  *)
(* (IPRange.network_id); NetworkForm.validate_network stores the block     *)
(* normalised, its address being the block's first                         *)
Network(address, cidr) == [address |-> address, cidr |-> cidr]
NumAddresses(net) == 2 ^ (32 - net.cidr)
NetworkAddress(net) == net.address - (net.address % NumAddresses(net))
BroadcastAddress(net) == NetworkAddress(net) + NumAddresses(net) - 1

(* routes/ipam.py create_ips_for_range: the status of a new row *)
Classify(ip_range, current) ==
    IF ip_range.gateway # None /\ current = Val(ip_range.gateway) THEN "gateway"
    ELSE IF current = ip_range.start_ip /\ LastOctet(current) = 0 THEN "network"
    ELSE IF current = ip_range.end_ip /\ LastOctet(current) = 255 THEN "broadcast"
    ELSE "available"

(* create_ips_for_range: the while loop from current to end *)
RECURSIVE CreateFrom(_, _, _, _)
CreateFrom(table, ip_range, rid, current) ==
    IF current > ip_range.end_ip THEN table
    ELSE CreateFrom(IF FirstId(table, current) = 0
                    THEN Append(table, NewIPAddress(current, rid, Classify(ip_range, current)))
                    ELSE table,
                    ip_range, rid, current + 1)

(* The loop without the lookup of line 498: a row is added for every       *)
(* address of the interval, whether the table holds it or not              *)
create_ips_for_range_unconditional(table, ip_range, rid) ==
    LET n == ip_range.end_ip - ip_range.start_ip + 1
    IN [ips |-> table \o [k \in 1..n |->
                             NewIPAddress(ip_range.start_ip + k - 1, rid,
                                          Classify(ip_range, ip_range.start_ip + k - 1))],
        count |-> n]

(* The loop written with current < end: the interval's last address is    *)
(* left out                                                                *)
create_ips_for_range_end_exclusive(table, ip_range, rid) ==
    LET after == CreateFrom(table, [ip_range EXCEPT !.end_ip = @ - 1], rid, ip_range.start_ip)
    IN [ips |-> after, count |-> Len(after) - Len(table)]

(* create_ips_for_range: the table afterwards and the count returned *)
create_ips_for_range(table, ip_range, rid) ==
    LET after == CreateFrom(table, ip_range, rid, ip_range.start_ip)
    IN [ips |-> after, count |-> Len(after) - Len(table)]

----------------------------------------------------------------------------
(* Inputs of the handlers *)

MaxBulk == 2

(* IPRangeForm submissions (routes/ipam.py add_range).  _range_uc makes    *)
(* (start_ip, end_ip) unique, so each interval is stored at most once.     *)
RangeForms ==
    {[network |-> Network(IP(10, 0, 1, 0), 24),
      vlan_id |-> 0,
      start_ip |-> IP(10, 0, 1, 0), end_ip |-> IP(10, 0, 1, 2),
      gateway |-> Some(IP(10, 0, 1, 1)), create_ips |-> b] : b \in BOOLEAN}

(* The IPRange add_range stores for a form (455-465) *)
RangeOf(form) ==
    [network |-> form.network,
     vlan_id |-> IF form.vlan_id # 0 THEN Some(form.vlan_id) ELSE None,
     start_ip |-> form.start_ip, end_ip |-> form.end_ip,
     gateway |-> form.gateway]

(* Each caller is a client with a device of its own: the device_type and   *)
(* device_id it submits                                                    *)
DeviceTypes == <<"server", "vps">>
TargetOf(c) == <<DeviceTypes[(c % 2) + 1], 6 + c>>

(* The IPAssignmentForm a client submits: odd callers fill the optional    *)
(* fields, even callers leave them blank                                   *)
FormOf(c) ==
    IF c % 2 = 1
    THEN [is_primary |-> TRUE, interface_name |-> "eth0", mac_address |-> "00:11:22:33:44:55",
          vps_hostname |-> "vm.example.com", ptr_record |-> "ptr.example.com", notes |-> "rack 5"]
    ELSE [is_primary |-> FALSE, interface_name |-> "", mac_address |-> "",
          vps_hostname |-> "", ptr_record |-> "", notes |-> ""]

(* The keyword arguments assign_ip passes to IPAddress.assign (205-215)    *)
AssignIpKwargs(form) ==
    [is_primary |-> form.is_primary,
     interface_name |-> Some(form.interface_name),
     mac_address |-> Some(form.mac_address),
     vps_hostname |-> Some(form.vps_hostname),
     ptr_record |-> Some(form.ptr_record),
     connection_type |-> Some("public")]

(* The keyword arguments bulk_assign passes (731-737) *)
BulkKwargs == [is_primary |-> FALSE, notes |-> Some("Bulk assignment: ")]

(* if form.notes.data: ip.notes = form.notes.data (218-219) *)
WithNotes(obj, form) == IF form.notes # "" THEN [obj EXCEPT !.notes = Some(form.notes)] ELSE obj

(* IPRangeForm.validate_end_ip: whether the field passes.  The             *)
(* ValidationError of line 149 is raised inside the try block of 145-151,  *)
(* whose handler is except ValueError: pass; wtforms declares              *)
(* class ValidationError(ValueError), so the handler catches it and the    *)
(* validator returns without an error.                                     *)
validate_end_ip(start_ip, end_ip) ==
    LET raised == IF end_ip <= start_ip THEN "ValidationError" ELSE "none"
        caught == raised \in {"ValidationError", "ValueError"}
    IN raised = "none" \/ caught

(* BulkAssignForm.validate_ip_range, start-end notation *)
validate_ip_range(start, end) == ~(end <= start) /\ ~(end - start > 1024)

(* bulk_assign 687-695: the expansion of start-end *)
RangeList(start, end) == [k \in 1..(end - start + 1) |-> start + k - 1]

NoReq == [op |-> "none"]
NoObj == [id |-> 0]

(* What a handler answers (flash and redirect, or an error page) *)
Response(op, outcome, address, assigned_count, failed_count, remaining) ==
    [op |-> op, outcome |-> outcome, address |-> address,
     assigned_count |-> assigned_count, failed_count |-> failed_count,
     remaining |-> remaining]

(* The clients send MaxRequests requests in all *)
CanStart(c) == pc[c] = "idle" /\ sent < MaxRequests

(* The handler returns: the session is closed, the answer is on its way    *)
Finish(c, res) ==
    /\ pc' = [pc EXCEPT ![c] = "response"]
    /\ req' = [req EXCEPT ![c] = res]
    /\ loaded' = [loaded EXCEPT ![c] = NoObj]

----------------------------------------------------------------------------
Init ==
    /\ ips = <<>>
    /\ hist = <<>>
    /\ ranges = <<>>
    /\ now = 0
    /\ pc = [c \in Callers |-> "idle"]
    /\ req = [c \in Callers |-> NoReq]
    /\ loaded = [c \in Callers |-> NoObj]
    /\ sent = 0

(* The clock and the configuration are followed while a request can still *)
(* observe them                                                            *)
Busy == sent < MaxRequests \/ \E c \in Callers : pc[c] \notin {"idle", "response"}

(* datetime.utcnow() moves on *)
Tick ==
    /\ Busy
    /\ \E t \in Instants : t > now /\ now' = t
    /\ UNCHANGED <<sent, ips, hist, ranges, pc, req, loaded>>

(* The client has its answer and may send the next request *)
respond(c) ==
    /\ pc[c] = "response"
    /\ pc' = [pc EXCEPT ![c] = "idle"]
    /\ req' = [req EXCEPT ![c] = NoReq]
    /\ UNCHANGED <<sent, ips, hist, ranges, now, loaded>>

(* routes/ipam.py add_range 451-478 for one submitted form: one            *)
(* transaction from the flush of the new range (468) to the commit (475).  *)
(* _range_uc refuses an interval that is already stored.                   *)
add_range_form(form) ==
    /\ validate_end_ip(form.start_ip, form.end_ip)
    /\ \A r \in 1..Len(ranges) :
          ~(ranges[r].start_ip = form.start_ip /\ ranges[r].end_ip = form.end_ip)
    /\ LET ip_range == RangeOf(form)
       IN /\ ranges' = Append(ranges, ip_range)
          /\ ips' = IF form.create_ips
                    THEN create_ips_for_range(ips, ip_range, Len(ranges) + 1).ips
                    ELSE ips
    /\ UNCHANGED <<sent, hist, now, pc, req, loaded>>

add_range == \E form \in RangeForms : Busy /\ add_range_form(form)

----------------------------------------------------------------------------
(* routes/ipam.py assign_ip *)

(* 171-178: the form arrives and check_duplicate_ip reads the table *)
assign_ip_check(c) ==
    /\ CanStart(c)
    /\ sent' = sent + 1
    /\ \E address \in Addrs :
          IF check_duplicate_ip(ips, address, 0) # 0
          THEN Finish(c, Response("assign_ip", "duplicate", address, 0, 0, 0))
          ELSE /\ pc' = [pc EXCEPT ![c] = "assign_find"]
               /\ req' = [req EXCEPT ![c] = [op |-> "assign_ip", address |-> address,
                                             device_type |-> TargetOf(c)[1],
                                             device_id |-> TargetOf(c)[2],
                                             form |-> FormOf(c)]]
               /\ UNCHANGED loaded
    /\ UNCHANGED <<ips, hist, ranges, now>>

(* 180-193: the second SELECT of the row, then the search for its range *)
assign_ip_find(c) ==
    /\ pc[c] = "assign_find"
    /\ LET ip == FirstId(ips, req[c].address)
           rid == FindRange(ranges, req[c].address)
       IN IF ip # 0
          THEN /\ pc' = [pc EXCEPT ![c] = "assign_commit"]
               /\ loaded' = [loaded EXCEPT ![c] = [id |-> ip, snap |-> ips[ip]]]
               /\ UNCHANGED req
          ELSE IF rid = 0
          THEN Finish(c, Response("assign_ip", "out_of_range", req[c].address, 0, 0, 0))
          ELSE /\ pc' = [pc EXCEPT ![c] = "assign_create"]
               /\ loaded' = [loaded EXCEPT ![c] = [id |-> 0, ip_range_id |-> rid]]
               /\ UNCHANGED req
    /\ UNCHANGED <<sent, ips, hist, ranges, now>>

(* 195-221 for a row that was not found: INSERT and flush (the unique      *)
(* index may raise IntegrityError, which no handler catches), assign,      *)
(* notes, commit                                                           *)
assign_ip_create(c) ==
    /\ pc[c] = "assign_create"
    /\ IF UniqueViolation(ips, req[c].address)
       THEN /\ Finish(c, Response("assign_ip", "integrity_error", req[c].address, 0, 0, 0))
            /\ UNCHANGED <<ips, hist>>
       ELSE LET id == Len(ips) + 1
                row == NewIPAddress(req[c].address, loaded[c].ip_range_id, "available")
                done == assign(row, id, req[c].device_type, req[c].device_id,
                               remote_addr, AssignIpKwargs(req[c].form), now)
                flushed == FlushObject(Append(ips, row), id, row,
                                       WithNotes(done.self, req[c].form), now)
            IN /\ ips' = flushed.ips
               /\ hist' = hist \o done.history \o flushed.history
               /\ Finish(c, Response("assign_ip", "assigned", req[c].address, 1, 0, 0))
    /\ UNCHANGED <<sent, ranges, now>>

(* 203-233 for a row that was found: assign on the loaded object; a        *)
(* ValueError is flashed and rolled back, otherwise notes and commit       *)
assign_ip_commit(c) ==
    /\ pc[c] = "assign_commit"
    /\ LET id == loaded[c].id
           done == assign(loaded[c].snap, id, req[c].device_type, req[c].device_id,
                          remote_addr, AssignIpKwargs(req[c].form), now)
           flushed == FlushObject(ips, id, loaded[c].snap,
                                  WithNotes(done.self, req[c].form), now)
       IN IF done.raised # "ok"
          THEN /\ Finish(c, Response("assign_ip", done.raised, req[c].address, 0, 0, done.remaining))
               /\ UNCHANGED <<ips, hist>>
          ELSE /\ ips' = flushed.ips
               /\ hist' = hist \o done.history \o flushed.history
               /\ Finish(c, Response("assign_ip", "assigned", req[c].address, 1, 0, 0))
    /\ UNCHANGED <<sent, ranges, now>>

----------------------------------------------------------------------------
(* routes/ipam.py release_ip *)

(* 588: if ip.status != 'assigned' *)
release_ip_guard(ip) == ip.status # "assigned"

(* 586-590: get_or_404 of an id the table holds, and the status check *)
release_ip_load(c) ==
    /\ CanStart(c)
    /\ sent' = sent + 1
    /\ \E ip_id \in 1..Len(ips) :
          IF release_ip_guard(ips[ip_id])
          THEN Finish(c, Response("release_ip", "not_assigned", ips[ip_id].address, 0, 0, 0))
          ELSE /\ pc' = [pc EXCEPT ![c] = "release_commit"]
               /\ req' = [req EXCEPT ![c] = [op |-> "release_ip", address |-> ips[ip_id].address]]
               /\ loaded' = [loaded EXCEPT ![c] = [id |-> ip_id, snap |-> ips[ip_id]]]
    /\ UNCHANGED <<ips, hist, ranges, now>>

(* 592-606: ip.release(user=request.remote_addr), with the default        *)
(* skip_quarantine=False, on the loaded object; commit                     *)
release_ip_commit(c) ==
    /\ pc[c] = "release_commit"
    /\ LET id == loaded[c].id
           done == release(loaded[c].snap, id, remote_addr, FALSE, now)
           flushed == FlushObject(ips, id, loaded[c].snap, done.self, now)
       IN IF done.raised # "ok"
          THEN /\ Finish(c, Response("release_ip", done.raised, req[c].address, 0, 0, 0))
               /\ UNCHANGED <<ips, hist>>
          ELSE /\ ips' = flushed.ips
               /\ hist' = hist \o done.history \o flushed.history
               /\ Finish(c, Response("release_ip", "released", req[c].address, 0, 0, 0))
    /\ UNCHANGED <<sent, ranges, now>>

----------------------------------------------------------------------------
(* models/ipam.py process_quarantine_expirations, called by index (102-105) *)

(* The query written with quarantine_until < now: a record whose deadline  *)
(* is this very instant is left for a later sweep                          *)
ExpiredIds_strict(table, t) ==
    {i \in 1..Len(table) : /\ table[i].status = "quarantine"
                           /\ table[i].quarantine_until # None
                           /\ Val(table[i].quarantine_until) < t}

(* The query with the comparison turned around: quarantine_until >= now    *)
ExpiredIds_not_yet_due(table, t) ==
    {i \in 1..Len(table) : /\ table[i].status = "quarantine"
                           /\ table[i].quarantine_until # None
                           /\ Val(table[i].quarantine_until) >= t}

(* 505-508: the rows with status quarantine and quarantine_until <= now    *)
ExpiredIds(table, t) ==
    {i \in 1..Len(table) : /\ table[i].status = "quarantine"
                           /\ table[i].quarantine_until # None
                           /\ Val(table[i].quarantine_until) <= t}

(* 510-520 for the loaded rows from id upwards: status and quarantine_until *)
(* are set on each object and a history row is added; the flush at commit  *)
(* writes each object's changed columns                                    *)
RECURSIVE ExpireFrom(_, _, _, _, _)
ExpireFrom(db, snaps, id, last, t) ==
    IF id > last THEN db
    ELSE IF id \notin DOMAIN snaps THEN ExpireFrom(db, snaps, id + 1, last, t)
    ELSE LET obj == [snaps[id] EXCEPT !.status = "available", !.quarantine_until = None]
             flushed == FlushObject(db.ips, id, snaps[id], obj, t)
         IN ExpireFrom([ips |-> flushed.ips,
                        history |-> db.history
                                    \o <<IPHistory(id, "quarantine_expired", None, None, None, t,
                                                   Some(<<"Quarantine period completed (batch process)">>))>>
                                    \o flushed.history],
                       snaps, id + 1, last, t)

(* 505-508: the query.  With nothing expired the commit writes nothing.    *)
process_quarantine_expirations_query(c) ==
    /\ CanStart(c)
    /\ sent' = sent + 1
    /\ LET expired == ExpiredIds(ips, now)
       IN IF expired = {}
          THEN Finish(c, Response("sweep", "swept", 0, 0, 0, 0))
          ELSE /\ pc' = [pc EXCEPT ![c] = "sweep_commit"]
               /\ req' = [req EXCEPT ![c] = [op |-> "sweep"]]
               /\ loaded' = [loaded EXCEPT ![c] = [id |-> 0,
                                                   snaps |-> [i \in expired |-> ips[i]]]]
    /\ UNCHANGED <<ips, hist, ranges, now>>

(* 510-523: the loop over the loaded rows and the commit *)
process_quarantine_expirations_commit(c) ==
    /\ pc[c] = "sweep_commit"
    /\ LET done == ExpireFrom([ips |-> ips, history |-> <<>>], loaded[c].snaps, 1, Len(ips), now)
       IN /\ ips' = done.ips
          /\ hist' = hist \o done.history
          /\ Finish(c, Response("sweep", "swept", 0, Cardinality(DOMAIN loaded[c].snaps), 0, 0))
    /\ UNCHANGED <<sent, ranges, now>>

----------------------------------------------------------------------------
(* routes/ipam.py bulk_assign *)

(* The test of 729 written as a test for a record nobody holds *)
ip_is_not_assigned(ip) == ip.status # "assigned"

(* 729: if ip and ip.status == 'available' *)
ip_is_available(ip) == ip.status = "available"

(* 704-742 for the addresses from idx on, run inside the open transaction: *)
(* db is the transaction's view [ips, history, assigned_count, failed_count] *)
RECURSIVE BulkLoop(_, _, _, _, _, _)
BulkLoop(db, rs, ips_to_assign, idx, target, t) ==
    IF idx > Len(ips_to_assign) THEN db
    ELSE LET ip_addr == ips_to_assign[idx]
             found == FirstId(db.ips, ip_addr)
             rid == FindRange(rs, ip_addr)
             id == IF found # 0 THEN found ELSE Len(db.ips) + 1
             table == IF found # 0 THEN db.ips
                      ELSE Append(db.ips, NewIPAddress(ip_addr, rid, "available"))
             done == assign(table[id], id, target[1], target[2], remote_addr, BulkKwargs, t)
             flushed == FlushObject(table, id, table[id], done.self, t)
         IN IF found = 0 /\ rid = 0
            THEN BulkLoop([db EXCEPT !.failed_count = @ + 1], rs, ips_to_assign, idx + 1, target, t)
            ELSE IF ip_is_available(table[id]) /\ done.raised = "ok"
            THEN BulkLoop([ips |-> flushed.ips,
                           history |-> db.history \o done.history \o flushed.history,
                           assigned_count |-> db.assigned_count + 1,
                           failed_count |-> db.failed_count],
                          rs, ips_to_assign, idx + 1, target, t)
            ELSE BulkLoop([db EXCEPT !.ips = table, !.failed_count = @ + 1],
                          rs, ips_to_assign, idx + 1, target, t)

(* 678-702: the form is validated and the range expanded *)
bulk_assign_start(c) ==
    /\ CanStart(c)
    /\ sent' = sent + 1
    /\ \E start \in Addrs, end \in Addrs :
          /\ validate_ip_range(start, end)
          /\ end - start < MaxBulk
          /\ pc' = [pc EXCEPT ![c] = "bulk_read"]
          /\ req' = [req EXCEPT ![c] = [op |-> "bulk_assign",
                                        ips_to_assign |-> RangeList(start, end),
                                        idx |-> 1, target |-> TargetOf(c),
                                        assigned_count |-> 0, failed_count |-> 0]]
    /\ UNCHANGED <<ips, hist, ranges, now, loaded>>

(* 704-742 while the request has written nothing: one address is read.     *)
(* A row that is missing and in no range, or not available, counts as      *)
(* failed.  An available row is assigned in memory (the UPDATE is flushed  *)
(* by the next query or the commit); a missing row in a range is about to  *)
(* be inserted.  Past the last address the commit (744) writes nothing.    *)
bulk_assign_read(c) ==
    /\ pc[c] = "bulk_read"
    /\ LET r == req[c]
           ip_addr == r.ips_to_assign[r.idx]
           ip == FirstId(ips, ip_addr)
           rid == FindRange(ranges, ip_addr)
           done == assign(ips[ip], ip, r.target[1], r.target[2], remote_addr, BulkKwargs, now)
           failed == /\ pc' = pc
                     /\ req' = [req EXCEPT ![c].idx = @ + 1, ![c].failed_count = @ + 1]
                     /\ UNCHANGED loaded
       IN IF r.idx > Len(r.ips_to_assign)
          THEN Finish(c, Response("bulk_assign", "complete", 0, r.assigned_count, r.failed_count, 0))
          ELSE IF ip = 0 /\ rid = 0 THEN failed
          ELSE IF ip = 0
          THEN /\ pc' = [pc EXCEPT ![c] = "bulk_insert"]
               /\ loaded' = [loaded EXCEPT ![c] = [id |-> 0, ip_range_id |-> rid]]
               /\ UNCHANGED req
          ELSE IF ip_is_available(ips[ip]) /\ done.raised = "ok"
          THEN /\ pc' = [pc EXCEPT ![c] = "bulk_flush"]
               /\ loaded' = [loaded EXCEPT ![c] = [id |-> ip, snap |-> ips[ip],
                                                   obj |-> done.self,
                                                   history |-> done.history]]
               /\ UNCHANGED req
          ELSE failed
    /\ UNCHANGED <<sent, ips, hist, ranges, now>>

(* The request's first write and everything after it, to the commit (744). *)
(* An IntegrityError of the INSERT (723-724) is caught at 751: rollback.   *)
(* So is any other exception of the storage layer on the way to the commit *)
(* (sqlite3.OperationalError: the write lock is held by another request    *)
(* beyond the busy timeout, or the disk is full): storage_ok = FALSE.      *)
bulk_assign_finish(c) ==
    /\ pc[c] \in {"bulk_insert", "bulk_flush"}
    /\ \E storage_ok \in BOOLEAN :
       LET r == req[c]
           ip_addr == r.ips_to_assign[r.idx]
           flushed == FlushObject(ips, loaded[c].id, loaded[c].snap, loaded[c].obj, now)
           first == IF pc[c] = "bulk_flush"
                    THEN [ips |-> flushed.ips,
                          history |-> loaded[c].history \o flushed.history,
                          assigned_count |-> r.assigned_count + 1,
                          failed_count |-> r.failed_count]
                    ELSE [ips |-> ips, history |-> <<>>,
                          assigned_count |-> r.assigned_count,
                          failed_count |-> r.failed_count]
           done == BulkLoop(first, ranges, r.ips_to_assign,
                            IF pc[c] = "bulk_flush" THEN r.idx + 1 ELSE r.idx,
                            r.target, now)
       IN IF ~storage_ok \/ (pc[c] = "bulk_insert" /\ UniqueViolation(ips, ip_addr))
          THEN /\ Finish(c, Response("bulk_assign", "error", ip_addr, 0, 0, 0))
               /\ UNCHANGED <<ips, hist>>
          ELSE /\ ips' = done.ips
               /\ hist' = hist \o done.history
               /\ Finish(c, Response("bulk_assign", "complete", 0,
                                     done.assigned_count, done.failed_count, 0))
    /\ UNCHANGED <<sent, ranges, now>>

----------------------------------------------------------------------------
Next ==
    \/ Tick
    \/ add_range
    \/ \E c \in Callers :
          \/ respond(c)
          \/ assign_ip_check(c)
          \/ assign_ip_find(c)
          \/ assign_ip_create(c)
          \/ assign_ip_commit(c)
          \/ release_ip_load(c)
          \/ release_ip_commit(c)
          \/ process_quarantine_expirations_query(c)
          \/ process_quarantine_expirations_commit(c)
          \/ bulk_assign_start(c)
          \/ bulk_assign_read(c)
          \/ bulk_assign_finish(c)

Spec == Init /\ [][Next]_vars

----------------------------------------------------------------------------
(* The system with one address released into quarantine: the range has     *)
(* been added without pre-created addresses, caller 1 has assigned         *)
(* 10.0.1.2 through assign_ip and released it through release_ip, both at  *)
(* time 0, and every request has been answered.                            *)

ExpiryRange ==
    [network |-> Network(IP(10, 0, 1, 0), 24),
     vlan_id |-> None,
     start_ip |-> IP(10, 0, 1, 0), end_ip |-> IP(10, 0, 1, 2),
     gateway |-> Some(IP(10, 0, 1, 1))]

(* assign_ip 195-221 on the empty table *)
ExpiryAssigned ==
    LET row == NewIPAddress(IP(10, 0, 1, 2), 1, "available")
        done == assign(row, 1, TargetOf(1)[1], TargetOf(1)[2], remote_addr,
                       AssignIpKwargs(FormOf(1)), 0)
        flushed == FlushObject(<<row>>, 1, row, WithNotes(done.self, FormOf(1)), 0)
    IN [ips |-> flushed.ips, history |-> done.history \o flushed.history]

(* release_ip 592-606 on that row *)
ExpiryReleased ==
    LET snap == ExpiryAssigned.ips[1]
        done == release(snap, 1, remote_addr, FALSE, 0)
        flushed == FlushObject(ExpiryAssigned.ips, 1, snap, done.self, 0)
    IN [ips |-> flushed.ips,
        history |-> ExpiryAssigned.history \o done.history \o flushed.history]

InitExpiry ==
    /\ ips = ExpiryReleased.ips
    /\ hist = ExpiryReleased.history
    /\ ranges = <<ExpiryRange>>
    /\ now = 0
    /\ pc = [c \in Callers |-> "idle"]
    /\ req = [c \in Callers |-> NoReq]
    /\ loaded = [c \in Callers |-> NoObj]
    /\ sent = 0

(* The requests that follow; the range is in place *)
NextExpiry ==
    \/ Tick
    \/ \E c \in Callers :
          \/ respond(c)
          \/ assign_ip_check(c)
          \/ assign_ip_find(c)
          \/ assign_ip_create(c)
          \/ assign_ip_commit(c)
          \/ release_ip_load(c)
          \/ release_ip_commit(c)
          \/ process_quarantine_expirations_query(c)
          \/ process_quarantine_expirations_commit(c)
          \/ bulk_assign_start(c)
          \/ bulk_assign_read(c)
          \/ bulk_assign_finish(c)

SpecExpiry == InitExpiry /\ [][NextExpiry]_vars

----------------------------------------------------------------------------
(* Materialization on its own: ranges are added to an empty installation,  *)
(* filed under a /23 or a /24 block, over the addresses either side of the *)
(* boundary 10.0.0.255 / 10.0.1.0, with the gateway left blank, inside the *)
(* interval or outside it, with and without pre-created addresses.         *)

MaxRanges == 2

MaterializeAddrs == IP(10, 0, 0, 254)..IP(10, 0, 1, 1)
MaterializeNetworks == {Network(IP(10, 0, 0, 0), 23), Network(IP(10, 0, 1, 0), 24)}

(* The operator files a range under the block that holds it *)
MaterializeForms ==
    {form \in [network : MaterializeNetworks, vlan_id : {0},
               start_ip : MaterializeAddrs, end_ip : MaterializeAddrs,
               gateway : {None} \cup {Some(a) : a \in MaterializeAddrs},
               create_ips : BOOLEAN] :
        /\ NetworkAddress(form.network) <= form.start_ip
        /\ form.end_ip <= BroadcastAddress(form.network)}

add_range_materialize ==
    \E form \in MaterializeForms : Len(ranges) < MaxRanges /\ add_range_form(form)

NextMaterialize == add_range_materialize

SpecMaterialize == Init /\ [][NextMaterialize]_vars

----------------------------------------------------------------------------
(* The bulk form on its own: one client submits range specifications in    *)
(* both notations, around the size limit of the validator, to an           *)
(* installation without ranges (every address of the expansion is read and *)
(* counted as failed).                                                     *)

(* BulkAssignForm.validate_ip_range, CIDR notation (284-291) *)
validate_ip_range_cidr(net) == ~(NumAddresses(net) > 1024)

(* bulk_assign 683-685: [str(ip) for ip in network.hosts()] -- the block    *)
(* without its network and broadcast address; both addresses of a /31      *)
Hosts(net) ==
    IF net.cidr = 31
    THEN <<NetworkAddress(net), NetworkAddress(net) + 1>>
    ELSE [k \in 1..(NumAddresses(net) - 2) |-> NetworkAddress(net) + k]

(* The specifications submitted: start-end with end - start from -1 to     *)
(* 1025, and blocks from /21 to /31                                        *)
BulkForms ==
    {[notation |-> "range", start |-> IP(10, 0, 0, 0), end |-> IP(10, 0, 0, 0) + d] :
        d \in {-1, 0, 1, 1023, 1024, 1025}}
    \cup {[notation |-> "cidr", network |-> Network(IP(10, 0, 0, 0), n)] :
            n \in {21, 22, 23, 30, 31}}

(* form.validate_on_submit() for the ip_range field *)
BulkFormValid(form) ==
    IF form.notation = "cidr" THEN validate_ip_range_cidr(form.network)
    ELSE validate_ip_range(form.start, form.end)

(* bulk_assign 680-695: the expansion *)
BulkExpansion(form) ==
    IF form.notation = "cidr" THEN Hosts(form.network)
    ELSE RangeList(form.start, form.end)

(* bulk_assign 676-702 for any specification: a form that fails validation *)
(* is shown again with its error, a valid one is expanded                  *)
bulk_assign_submit(c) ==
    /\ CanStart(c)
    /\ sent' = sent + 1
    /\ \E form \in BulkForms :
          IF ~BulkFormValid(form)
          THEN Finish(c, Response("bulk_assign", "invalid", 0, 0, 0, 0))
          ELSE /\ pc' = [pc EXCEPT ![c] = "bulk_read"]
               /\ req' = [req EXCEPT ![c] = [op |-> "bulk_assign",
                                             ips_to_assign |-> BulkExpansion(form),
                                             idx |-> 1, target |-> TargetOf(c),
                                             assigned_count |-> 0, failed_count |-> 0]]
               /\ UNCHANGED loaded
    /\ UNCHANGED <<ips, hist, ranges, now>>

NextBulkForm ==
    \E c \in {1} :
        \/ respond(c)
        \/ bulk_assign_submit(c)
        \/ bulk_assign_read(c)

SpecBulkForm == Init /\ [][NextBulkForm]_vars

----------------------------------------------------------------------------
(* The suggestion on its own: one client asks /suggest with every          *)
(* combination of VLAN id, pool id and type, of a table of three records   *)
(* (two of a public range, one of a range in the private block 10.10.x.x), *)
(* each record available or assigned and in pool 1 or in no pool, the      *)
(* ranges filed under VLAN 1, VLAN 2 or none.                              *)

SuggestIds == {None, Some(1), Some(2)}

SuggestRanges(v1, v2) ==
    <<[network |-> Network(IP(10, 0, 1, 0), 24), vlan_id |-> v1,
       start_ip |-> IP(10, 0, 1, 0), end_ip |-> IP(10, 0, 1, 2), gateway |-> None],
      [network |-> Network(IP(10, 10, 4, 0), 22), vlan_id |-> v2,
       start_ip |-> IP(10, 10, 4, 1), end_ip |-> IP(10, 10, 4, 2), gateway |-> None]>>

(* A record of the table: created, put in a pool or not, assigned or not *)
SuggestRow(id, address, rid, pool, assigned) ==
    LET row == [NewIPAddress(address, rid, "available") EXCEPT !.ip_pool_id = pool]
    IN IF assigned
       THEN assign(row, id, "server", 8, remote_addr, BulkKwargs, 0).self
       ELSE row

InitSuggest ==
    /\ \E v1 \in {None, Some(1)}, v2 \in {Some(1), Some(2)} : ranges = SuggestRanges(v1, v2)
    /\ \E pool \in [1..3 -> {None, Some(1)}], assigned \in [1..3 -> BOOLEAN] :
          ips = <<SuggestRow(1, IP(10, 0, 1, 2), 1, pool[1], assigned[1]),
                  SuggestRow(2, IP(10, 10, 4, 1), 2, pool[2], assigned[2]),
                  SuggestRow(3, IP(10, 0, 1, 1), 1, pool[3], assigned[3])>>
    /\ hist = <<>>
    /\ now = 0
    /\ pc = [c \in Callers |-> "idle"]
    /\ req = [c \in Callers |-> NoReq]
    /\ loaded = [c \in Callers |-> NoObj]
    /\ sent = 0

(* routes/ipam.py suggest 242-270: the arguments are taken from the query  *)
(* string; the answer is the address found or 404                          *)
suggest(c) ==
    /\ CanStart(c)
    /\ sent' = sent + 1
    /\ \E vlan_id \in SuggestIds, pool_id \in SuggestIds, connection_type \in {"public", "private"} :
          LET suggested_ip == SuggestFirst(SuggestQuery(ips, ranges, vlan_id, pool_id,
                                                        connection_type))
          IN Finish(c, [op |-> "suggest",
                        outcome |-> IF suggested_ip = 0 THEN "not_found" ELSE "found",
                        address |-> IF suggested_ip = 0 THEN 0 ELSE ips[suggested_ip].address,
                        vlan_id |-> vlan_id, pool_id |-> pool_id,
                        connection_type |-> connection_type])
    /\ UNCHANGED <<ips, hist, ranges, now>>

NextSuggest ==
    \E c \in {1} :
        \/ respond(c)
        \/ suggest(c)

SpecSuggest == InitSuggest /\ [][NextSuggest]_vars

----------------------------------------------------------------------------
(* IPAddress.assign on its own: a caller loads a record of a table of one  *)
(* address (never assigned, assigned, or released into quarantine at time  *)
(* 0), calls assign on it with a device and keyword arguments, and         *)
(* commits.  The keyword arguments are those the handlers pass and others  *)
(* that the signature assign(device_type, device_id, user, **kwargs)       *)
(* accepts.                                                                *)

(* Keyword arguments of a call: ip_range_id, status, quarantine_until and  *)
(* assigned_to_id are attributes of IPAddress, hostname is not             *)
AssignAttrs ==
    <<AssignIpKwargs(FormOf(1)),
      BulkKwargs,
      [status |-> "available"],
      [quarantine_until |-> Some(QuarantineTicks)],
      [ip_range_id |-> Some(2)],
      [assigned_to_id |-> Some(99)],
      [hostname |-> "vm.example.com"]>>

InitAssign ==
    /\ \E before \in {[ips |-> <<NewIPAddress(IP(10, 0, 1, 2), 1, "available")>>,
                       history |-> <<>>],
                      ExpiryAssigned, ExpiryReleased} :
          /\ ips = before.ips
          /\ hist = before.history
    /\ ranges = <<ExpiryRange>>
    /\ now = 0
    /\ pc = [c \in Callers |-> "idle"]
    /\ req = [c \in Callers |-> NoReq]
    /\ loaded = [c \in Callers |-> NoObj]
    /\ sent = 0

(* ip.assign(device_type, device_id, user, **kwargs) on the record loaded  *)
(* by id, then commit; a ValueError is answered and rolled back            *)
assign_call(c) ==
    /\ CanStart(c)
    /\ sent' = sent + 1
    /\ \E id \in 1..Len(ips), d \in Callers, k \in 1..Len(AssignAttrs) :
          LET snap == ips[id]
              done == assign(snap, id, TargetOf(d)[1], TargetOf(d)[2], remote_addr,
                             AssignAttrs[k], now)
              flushed == FlushObject(ips, id, snap, done.self, now)
              answer == [op |-> "assign", outcome |-> IF done.raised = "ok" THEN "assigned"
                                                      ELSE done.raised,
                         id |-> id, address |-> snap.address,
                         device_type |-> TargetOf(d)[1], device_id |-> TargetOf(d)[2],
                         attrs |-> AssignAttrs[k], remaining |-> done.remaining]
          IN /\ Finish(c, answer)
             /\ IF done.raised # "ok"
                THEN UNCHANGED <<ips, hist>>
                ELSE /\ ips' = flushed.ips
                     /\ hist' = hist \o done.history \o flushed.history
    /\ UNCHANGED <<ranges, now>>

NextAssign ==
    \/ Tick
    \/ \E c \in {1} :
          \/ respond(c)
          \/ assign_call(c)

SpecAssign == InitAssign /\ [][NextAssign]_vars

----------------------------------------------------------------------------
(* routes/ipam.py history: the ledger view.  A client asks /history with   *)
(* every combination of the ip, device_type and device_id arguments, of    *)
(* ledgers of several lengths around the two limits of the handler.        *)

(* .limit(100) of the unfiltered query (642), .limit(500) of the filtered  *)
(* one (662)                                                               *)
RECENT_LIMIT == 100
FILTER_LIMIT == 500

(* ORDER BY performed_at DESC: row a comes before row b.  SQL leaves the   *)
(* order of rows with equal performed_at open; ties_desc tells which way   *)
(* the engine walks them.                                                  *)
Before(h, a, b, ties_desc) ==
    \/ h[a].performed_at > h[b].performed_at
    \/ /\ h[a].performed_at = h[b].performed_at
       /\ IF ties_desc THEN a > b ELSE a < b

(* query.order_by(IPHistory.performed_at.desc()): the ids of the rows of   *)
(* keep, in the order of the result                                        *)
order_by_performed_at_desc(h, keep, ties_desc) ==
    LET InQuery(k) == k \in keep
        ComesBefore(a, b) == Before(h, a, b, ties_desc)
    IN SortSeq(SelectSeq([k \in 1..Len(h) |-> k], InQuery), ComesBefore)

(* .limit(n).all() *)
limit(rows, n) == SubSeq(rows, 1, IF Len(rows) < n THEN Len(rows) ELSE n)

(* The limit left out of the unfiltered query *)
history_unlimited(table, h, ip_address, device_type, device_id, ties_desc) ==
    order_by_performed_at_desc(h, 1..Len(h), ties_desc)

(* 644-666: the ids of the ip_history rows the page shows.  An argument    *)
(* that is absent is "" (device_id: 0).  The ip filter is added only when  *)
(* a record with that address is found (651-654).                          *)
history(table, h, ip_address, device_type, device_id, ties_desc) ==
    LET recent_history == limit(order_by_performed_at_desc(h, 1..Len(h), ties_desc),
                                RECENT_LIMIT)
        ip == IF ip_address # 0 THEN FirstId(table, ip_address) ELSE 0
        query == {k \in 1..Len(h) :
                    /\ ip # 0 => h[k].ip_address_id = ip
                    /\ device_type # "" => h[k].assigned_to_type = Some(device_type)
                    /\ device_id # 0 => h[k].assigned_to_id = Some(device_id)}
        history_items == limit(order_by_performed_at_desc(h, query, ties_desc),
                               FILTER_LIMIT)
    IN IF ip_address # 0 \/ device_type # "" \/ device_id # 0
       THEN history_items
       ELSE recent_history

(* The lengths of the ledgers *)
HistorySizes == {0, 1, 2, 3, 99, 100, 101, 501}

(* How the entries are stamped: one instant each; three entries to an      *)
(* instant; every fourth entry stamped two instants before it was written  *)
(* (its request read the clock before an earlier writer committed)         *)
HistoryStamps == {"distinct", "shared", "late"}

(* A ledger of n entries: records 1 and 2 (or record 1 alone) assigned to  *)
(* their devices and released in turn                                      *)
HistoryLedger(n, stamps, records) ==
    [k \in 1..n |->
        LET id == IF records = 2 THEN 1 + (k % 2) ELSE 1
            t == IF stamps = "distinct" THEN k
                 ELSE IF stamps = "shared" THEN k \div 3
                 ELSE IF k % 4 = 0 THEN k - 2 ELSE k
        IN IF ((k - 1) \div records) % 2 = 0
           THEN IPHistory(id, "assigned", Some(TargetOf(id)[1]), Some(TargetOf(id)[2]),
                          Some(remote_addr), t, None)
           ELSE IPHistory(id, "released", Some(TargetOf(id)[1]), Some(TargetOf(id)[2]),
                          Some(remote_addr), t, Some(<<"No quarantine">>))]

InitHistory ==
    /\ ips = <<NewIPAddress(IP(10, 0, 1, 1), 1, "available"),
               NewIPAddress(IP(10, 0, 1, 2), 1, "available")>>
    /\ \E n \in HistorySizes, stamps \in HistoryStamps, records \in {1, 2} :
          hist = HistoryLedger(n, stamps, records)
    /\ ranges = <<ExpiryRange>>
    /\ now = 0
    /\ pc = [c \in Callers |-> "idle"]
    /\ req = [c \in Callers |-> NoReq]
    /\ loaded = [c \in Callers |-> NoObj]
    /\ sent = 0

(* GET /history?ip=&device_type=&device_id= *)
history_view(c) ==
    /\ CanStart(c)
    /\ sent' = sent + 1
    /\ \E ip_address \in {0, IP(10, 0, 1, 0), IP(10, 0, 1, 1), IP(10, 0, 1, 2)},
          device_type \in {"", "vps"}, device_id \in {0, TargetOf(1)[2]},
          ties_desc \in BOOLEAN :
          Finish(c, [op |-> "history", outcome |-> "shown",
                     ip |-> ip_address, device_type |-> device_type, device_id |-> device_id,
                     items |-> history(ips, hist, ip_address, device_type, device_id,
                                       ties_desc)])
    /\ UNCHANGED <<ips, hist, ranges, now>>

NextHistory ==
    \E c \in {1} :
        \/ respond(c)
        \/ history_view(c)

SpecHistory == InitHistory /\ [][NextHistory]_vars

----------------------------------------------------------------------------
(* The sweep run for ever.  Caller 1 is a client that sends the requests   *)
(* of Spec; caller 2 opens the dashboard again and again, and every        *)
(* dashboard request runs to its end.  The clock goes on whether or not a  *)
(* request is pending, up to the last instant of the model; a release is   *)
(* committed only while its deadline is an instant the clock can reach.    *)

LastInstant == MaxPeriods * QuarantineTicks + 1

TickOn ==
    /\ \E t \in Instants : t > now /\ now' = t
    /\ UNCHANGED <<sent, ips, hist, ranges, pc, req, loaded>>

(* routes/ipam.py index 102-105: process_quarantine_expirations, its query *)
index(c) ==
    /\ pc[c] = "idle"
    /\ LET expired == ExpiredIds(ips, now)
       IN IF expired = {}
          THEN Finish(c, Response("sweep", "swept", 0, 0, 0, 0))
          ELSE /\ pc' = [pc EXCEPT ![c] = "sweep_commit"]
               /\ req' = [req EXCEPT ![c] = [op |-> "sweep"]]
               /\ loaded' = [loaded EXCEPT ![c] = [id |-> 0,
                                                   snaps |-> [i \in expired |-> ips[i]]]]
    /\ UNCHANGED <<sent, ips, hist, ranges, now>>

release_ip_commit_on(c) ==
    /\ now + QuarantineTicks <= LastInstant
    /\ release_ip_commit(c)

NextSweep ==
    \/ TickOn
    \/ add_range
    \/ \E c \in {1} :
          \/ respond(c)
          \/ assign_ip_check(c)
          \/ assign_ip_find(c)
          \/ assign_ip_create(c)
          \/ assign_ip_commit(c)
          \/ release_ip_load(c)
          \/ release_ip_commit_on(c)
          \/ process_quarantine_expirations_query(c)
          \/ bulk_assign_start(c)
          \/ bulk_assign_read(c)
          \/ bulk_assign_finish(c)
    \/ \E c \in Callers : process_quarantine_expirations_commit(c)
    \/ \E c \in {2} :
          \/ respond(c)
          \/ index(c)

SpecSweep ==
    /\ Init
    /\ [][NextSweep]_vars
    /\ WF_vars(TickOn)
    /\ WF_vars(index(2))
    /\ WF_vars(process_quarantine_expirations_commit(2))
    /\ WF_vars(respond(2))

----------------------------------------------------------------------------
(* Properties of the address lifecycle *)

(* The caller's handler returned in this step *)
Returned(c) == pc[c] # "response" /\ pc'[c] = "response"

(* The caller's request took a step *)
Stepped(c) == pc'[c] # pc[c] \/ req'[c] # req[c]

(* The status of the row that holds an address; "" when there is no row *)
StatusOf(table, address) ==
    IF FirstId(table, address) = 0 THEN "" ELSE table[FirstId(table, address)].status

(* C1: at most one ip_addresses row exists per address, whether the rows   *)
(* were created by add_range's materialisation, on demand by assign_ip or  *)
(* by bulk_assign.                                                         *)
C1_OneRecordPerAddress ==
    \A i, j \in 1..Len(ips) : ips[i].address = ips[j].address => i = j

(* An on-demand INSERT that had passed the duplicate check was refused by  *)
(* the index, while the table holds that address once                      *)
C1_Witness ==
    \E c \in Callers :
        /\ pc[c] = "response"
        /\ req[c].outcome \in {"integrity_error", "error"}
        /\ Cardinality(IdsOf(ips, req[c].address)) = 1

(* C2: when several callers assign the same available address at the same *)
(* time, one succeeds and the others are rejected: a caller that read the  *)
(* record as available and writes after another caller's assignment of it  *)
(* was committed leaves the record, and so its assignment target, as the   *)
(* winner wrote it.                                                        *)
C2_OneCallerSucceeds ==
    [][\A c \in Callers :
          /\ pc[c] \in {"assign_commit", "bulk_flush"}
          /\ Returned(c)
          /\ loaded[c].snap.status = "available"
          /\ ips[loaded[c].id].status = "assigned"
          => ips'[loaded[c].id] = ips[loaded[c].id]]_vars

(* C3: an assign on an address whose record has status assigned is always *)
(* rejected and changes nothing, neither the record nor the ledger:        *)
(* assign_ip answers "already assigned" at its duplicate check or from     *)
(* IPAddress.assign, bulk_assign counts the address as failed.             *)
C3_AssignedIsRejected ==
    [][\A c \in Callers :
          /\ pc[c] = "idle" /\ pc'[c] # "idle" /\ req'[c].op = "assign_ip"
              /\ StatusOf(ips, req'[c].address) = "assigned"
              => /\ Returned(c) /\ req'[c].outcome = "duplicate"
                 /\ UNCHANGED <<ips, hist>>
          /\ pc[c] = "assign_commit" /\ Stepped(c)
              /\ loaded[c].snap.status = "assigned"
              => /\ Returned(c) /\ req'[c].outcome = "already_assigned"
                 /\ UNCHANGED <<ips, hist>>
          /\ pc[c] = "bulk_read" /\ Stepped(c)
              /\ req[c].idx <= Len(req[c].ips_to_assign)
              /\ StatusOf(ips, req[c].ips_to_assign[req[c].idx]) = "assigned"
              => /\ pc'[c] = "bulk_read"
                 /\ req'[c].failed_count = req[c].failed_count + 1
                 /\ req'[c].assigned_count = req[c].assigned_count
                 /\ UNCHANGED <<ips, hist>>
          /\ pc[c] \in {"bulk_insert", "bulk_flush"} /\ Returned(c)
              => \A i \in 1..Len(ips) :
                    ips[i].status = "assigned" /\ i # loaded[c].id => ips'[i] = ips[i]]_vars

(* assign_ip loaded a record another caller had assigned meanwhile, and    *)
(* IPAddress.assign refused it: the record still belongs to the other      *)
(* caller's device                                                         *)
C3_Witness ==
    \E c \in Callers :
        /\ pc[c] = "response" /\ req[c].op = "assign_ip"
        /\ req[c].outcome = "already_assigned"
        /\ StatusOf(ips, req[c].address) = "assigned"
        /\ ips[FirstId(ips, req[c].address)].assigned_to_id # Some(TargetOf(c)[2])

(* C4: an assign on an address whose record has status available         *)
(* succeeds, through IPAddress.assign and through assign_ip: it is not     *)
(* turned away by assign_ip.                                               *)
C4_AvailableIsAccepted ==
    [][\A c \in Callers :
          /\ pc[c] = "idle" /\ pc'[c] # "idle" /\ req'[c].op = "assign_ip"
          /\ StatusOf(ips, req'[c].address) = "available"
          => ~Returned(c)]_vars

(* C5: IPAddress.assign on a record in quarantine raises (quarantine       *)
(* active) and changes nothing while utcnow() is strictly before the       *)
(* record's quarantine_until, and succeeds from quarantine_until on.       *)
C5_QuarantineDeadline ==
    [][\A c \in Callers :
          /\ pc[c] = "assign_commit" /\ Stepped(c)
          /\ loaded[c].snap.status = "quarantine"
          /\ loaded[c].snap.quarantine_until # None
          => /\ Returned(c)
             /\ IF now < Val(loaded[c].snap.quarantine_until)
                THEN /\ req'[c].outcome = "quarantine_active"
                     /\ UNCHANGED <<ips, hist>>
                ELSE /\ req'[c].outcome = "assigned"
                     /\ ips'[loaded[c].id].status = "assigned"
                     /\ ips'[loaded[c].id].assigned_to_id = Some(TargetOf(c)[2])
                     /\ Len(hist') = Len(hist) + 1]_vars

(* IPAddress.assign refused a record released into quarantine, before its  *)
(* quarantine_until                                                        *)
C5_Witness ==
    \E c \in Callers :
        /\ pc[c] = "response" /\ req[c].op = "assign_ip"
        /\ req[c].outcome = "quarantine_active"
        /\ StatusOf(ips, req[c].address) = "quarantine"
        /\ now < Val(ips[FirstId(ips, req[c].address)].quarantine_until)

(* C6: a record with status gateway, network or broadcast never accepts   *)
(* an assign, through IPAddress.assign, assign_ip or bulk_assign: it keeps *)
(* its administrative status forever.                                      *)
C6_AdministrativeStatusKept ==
    [][\A i \in 1..Len(ips) :
          ips[i].status \in {"gateway", "network", "broadcast"}
          => ips'[i].status = ips[i].status]_vars

(* C7: a release on a record whose status is not assigned is rejected     *)
(* (not assigned) and leaves the record and the ledger unchanged:          *)
(* IPAddress.release on every such record of the table, with or without    *)
(* quarantine, and release_ip on the record it loads.                      *)
C7_ReleaseNeedsAssigned ==
    /\ [](\A i \in 1..Len(ips) : \A skip_quarantine \in BOOLEAN :
             ips[i].status # "assigned"
             => LET done == release(ips[i], i, remote_addr, skip_quarantine, now)
                IN /\ done.raised = "not_assigned"
                   /\ done.self = ips[i]
                   /\ done.history = <<>>)
    /\ [][\A c \in Callers :
             /\ pc[c] = "idle" /\ pc'[c] # "idle" /\ req'[c].op = "release_ip"
                 /\ StatusOf(ips, req'[c].address) # "assigned"
                 => /\ Returned(c) /\ req'[c].outcome = "not_assigned"
                    /\ UNCHANGED <<ips, hist>>
             /\ pc[c] = "release_commit" /\ Stepped(c)
                 /\ loaded[c].snap.status # "assigned"
                 => /\ Returned(c) /\ req'[c].outcome = "not_assigned"
                    /\ UNCHANGED <<ips, hist>>]_vars

(* release_ip turned away the release of a record in quarantine *)
C7_Witness ==
    \E c \in Callers :
        /\ pc[c] = "response" /\ req[c].op = "release_ip"
        /\ req[c].outcome = "not_assigned"
        /\ StatusOf(ips, req[c].address) = "quarantine"

(* C8: a successful release ends in one of two states: without             *)
(* skip_quarantine the status is quarantine and quarantine_until is the    *)
(* release time plus 90 days, with skip_quarantine the status is available *)
(* and quarantine_until is null.  IPAddress.release is applied to every    *)
(* assigned record of the table, and release_ip's commit is followed.      *)
C8_ReleaseOutcome ==
    /\ [](\A i \in 1..Len(ips) :
             ips[i].status = "assigned"
             => LET kept == release(ips[i], i, remote_addr, FALSE, now)
                    skipped == release(ips[i], i, remote_addr, TRUE, now)
                IN /\ kept.raised = "ok" /\ skipped.raised = "ok"
                   /\ kept.self.status = "quarantine"
                   /\ kept.self.quarantine_until = Some(now + QUARANTINE_DAYS * TicksPerDay)
                   /\ skipped.self.status = "available"
                   /\ skipped.self.quarantine_until = None)
    /\ [][\A c \in Callers :
             pc[c] = "release_commit" /\ Returned(c) /\ req'[c].outcome = "released"
             => /\ ips'[loaded[c].id].status = "quarantine"
                /\ ips'[loaded[c].id].quarantine_until = Some(now + QUARANTINE_DAYS * TicksPerDay)
                /\ ips'[loaded[c].id].release_date = Some(now)]_vars

(* release_ip has released a record: it is in quarantine until 90 days     *)
(* after its release_date                                                  *)
C8_Witness ==
    \E c \in Callers :
        /\ pc[c] = "response" /\ req[c].op = "release_ip" /\ req[c].outcome = "released"
        /\ StatusOf(ips, req[c].address) = "quarantine"
        /\ LET ip == ips[FirstId(ips, req[c].address)]
           IN ip.quarantine_until = Some(Val(ip.release_date) + QUARANTINE_DAYS * TicksPerDay)

(* C9: a record whose status is not assigned has its four assignment      *)
(* fields null: assigned_to_type, assigned_to_id, assignment_date and      *)
(* assigned_by.                                                            *)
C9_AssignmentFieldsNull ==
    \A i \in 1..Len(ips) :
        ips[i].status # "assigned"
        => /\ ips[i].assigned_to_type = None
           /\ ips[i].assigned_to_id = None
           /\ ips[i].assignment_date = None
           /\ ips[i].assigned_by = None

(* C10: a record whose status is not quarantine has release_date,         *)
(* released_by and quarantine_until null.                                  *)
C10_QuarantineFieldsNull ==
    \A i \in 1..Len(ips) :
        ips[i].status # "quarantine"
        => /\ ips[i].release_date = None
           /\ ips[i].released_by = None
           /\ ips[i].quarantine_until = None

----------------------------------------------------------------------------
(* Properties of the ledger and of quarantine expiry *)

(* The entries this step appends to the ledger, and their actions *)
NewEntries == SubSeq(hist', Len(hist) + 1, Len(hist'))
ActionsOf(entries) == [k \in 1..Len(entries) |-> entries[k].action]
Repeat(action, n) == [k \in 1..n |-> action]

(* C11: the ledger only grows by appending, and every operation leaves the *)
(* entries of its outcome: a successful assign one 'assigned' entry,       *)
(* preceded by one 'quarantine_expired' entry when the record it assigned  *)
(* was in quarantine with the deadline passed; a successful release one    *)
(* 'released' entry; a sweep one 'quarantine_expired' entry per record it  *)
(* transitioned; a bulk assignment one 'assigned' entry per address it     *)
(* assigned; a rejected operation, and a step that is no operation, none.  *)
C11_HistoryComplete ==
    [][/\ Len(hist') >= Len(hist)
       /\ SubSeq(hist', 1, Len(hist)) = hist
       /\ (\A c \in Callers : ~Returned(c)) => hist' = hist
       /\ \A c \in Callers :
             Returned(c) =>
                ActionsOf(NewEntries) =
                   IF req'[c].op = "assign_ip" /\ req'[c].outcome = "assigned"
                   THEN IF pc[c] = "assign_commit" /\ loaded[c].snap.status = "quarantine"
                        THEN <<"quarantine_expired", "assigned">>
                        ELSE <<"assigned">>
                   ELSE IF req'[c].op = "release_ip" /\ req'[c].outcome = "released"
                   THEN <<"released">>
                   ELSE IF req'[c].op = "sweep"
                   THEN Repeat("quarantine_expired", req'[c].assigned_count)
                   ELSE IF req'[c].op = "bulk_assign" /\ req'[c].outcome = "complete"
                   THEN Repeat("assigned", req'[c].assigned_count)
                   ELSE <<>>]_vars

(* The records whose quarantine has run out at time t *)
Due(table, t) ==
    {i \in 1..Len(table) : /\ table[i].status = "quarantine"
                           /\ table[i].quarantine_until # None
                           /\ Val(table[i].quarantine_until) <= t}

(* C12: process_quarantine_expirations selects exactly the records with    *)
(* status quarantine and quarantine_until <= now; it sets each of them to  *)
(* available with quarantine_until cleared and no other field touched,     *)
(* leaves every other record as it is, creates and removes none, and       *)
(* returns the number of records it transitioned (0 when none is due).     *)
C12_SweepTransitionsExpired ==
    [][\A c \in Callers :
          /\ (pc[c] = "idle" /\ pc'[c] # "idle" /\ req'[c].op = "sweep") =>
                /\ ips' = ips /\ hist' = hist
                /\ IF Due(ips, now) = {}
                   THEN Returned(c) /\ req'[c].assigned_count = 0
                   ELSE /\ pc'[c] = "sweep_commit"
                        /\ DOMAIN loaded'[c].snaps = Due(ips, now)
                        /\ \A i \in Due(ips, now) : loaded'[c].snaps[i] = ips[i]
          /\ (pc[c] = "sweep_commit" /\ pc'[c] # "sweep_commit") =>
                /\ Returned(c)
                /\ req'[c].assigned_count = Cardinality(DOMAIN loaded[c].snaps)
                /\ Len(ips') = Len(ips)
                /\ \A i \in 1..Len(ips) :
                      ips'[i] = IF i \in DOMAIN loaded[c].snaps
                                THEN [ips[i] EXCEPT !.status = "available",
                                                    !.quarantine_until = None]
                                ELSE ips[i]]_vars

(* A sweep run at the very instant of a deadline has transitioned one      *)
(* record and returned 1                                                   *)
C12_Witness ==
    \E c \in Callers :
        /\ pc[c] = "response" /\ req[c].op = "sweep" /\ req[c].assigned_count = 1
        /\ \E i \in 1..Len(ips) :
              /\ ips[i].status = "available" /\ ips[i].quarantine_until = None
              /\ ips[i].release_date # None
              /\ now = Val(ips[i].release_date) + QuarantineTicks

(* The ledger entries of record id with the given action *)
HistCount(h, id, action) ==
    Cardinality({k \in 1..Len(h) : h[k].ip_address_id = id /\ h[k].action = action})

(* C13: however often the expiry of a quarantine is triggered (two sweeps  *)
(* at once, a sweep after a sweep), the ledger holds one                   *)
(* 'quarantine_expired' entry for it: a record never has more expiry       *)
(* entries than releases into quarantine; and every record a sweep loaded  *)
(* is available when the sweep has committed.                              *)
C13_ExpiryOnce ==
    /\ [](\A i \in 1..Len(ips) :
             HistCount(hist, i, "quarantine_expired") <= HistCount(hist, i, "released"))
    /\ [][\A c \in Callers :
             (pc[c] = "sweep_commit" /\ Returned(c)) =>
                \A i \in DOMAIN loaded[c].snaps : ips'[i].status = "available"]_vars

(* C14: once now >= quarantine_until every path treats the record as       *)
(* available without a sweep having run: suggest_next_available_ip has it  *)
(* among its candidates (and returns a record whenever one is due), and    *)
(* bulk_assign, reading such a record, assigns it and does not count it as *)
(* failed.                                                                 *)
C14_LazyExpiry ==
    /\ [](/\ Due(ips, now) \subseteq SuggestCandidates(ips)
          /\ Due(ips, now) # {} => suggest_next_available_ip(ips) # 0)
    /\ [][\A c \in Callers :
             (/\ pc[c] = "bulk_read" /\ Stepped(c)
              /\ req[c].idx <= Len(req[c].ips_to_assign)
              /\ FirstId(ips, req[c].ips_to_assign[req[c].idx]) \in Due(ips, now)) =>
                /\ pc'[c] = "bulk_flush"
                /\ req'[c].failed_count = req[c].failed_count]_vars

(* The actions of the ledger entries of record id, in order *)
LedgerOf(h, id) ==
    LET OfRecord(e) == e.ip_address_id = id
    IN ActionsOf(SelectSeq(h, OfRecord))

(* C15: an assign that succeeds on a record in quarantine whose deadline   *)
(* has passed takes the record through available: quarantine_until is      *)
(* cleared, a 'quarantine_expired' entry is appended and then the          *)
(* 'assigned' entry, so that the record's ledger ends released,            *)
(* quarantine_expired, assigned.                                           *)
C15_AssignThroughAvailable ==
    [][\A c \in Callers :
          (/\ pc[c] = "assign_commit" /\ Returned(c)
           /\ loaded[c].snap.status = "quarantine"
           /\ req'[c].outcome = "assigned") =>
             LET id == loaded[c].id
                 ledger == LedgerOf(hist', id)
                 n == Len(ledger)
             IN /\ ips'[id].status = "assigned"
                /\ ips'[id].quarantine_until = None
                /\ Len(hist') = Len(hist) + 2
                /\ n >= 3
                /\ ledger[n - 2] = "released"
                /\ ledger[n - 1] = "quarantine_expired"
                /\ ledger[n] = "assigned"]_vars

----------------------------------------------------------------------------
(* Properties of materialization and of bulk assignment *)

(* The addresses of a range, and whether the table holds them all *)
Interval(ip_range) == ip_range.start_ip..ip_range.end_ip
Materialized(table, ip_range) == \A a \in Interval(ip_range) : IdsOf(table, a) # {}

(* C16: create_ips_for_range run again on a range creates no record and    *)
(* returns 0, and never changes a record that exists: a second run right   *)
(* after a first changes nothing, a run on a range whose addresses all     *)
(* exist (whatever was assigned or released since) changes nothing, and    *)
(* any run leaves the records it found as they were.                       *)
C16_MaterializeIdempotent ==
    \A r \in 1..Len(ranges) :
        LET once == create_ips_for_range(ips, ranges[r], r)
            twice == create_ips_for_range(once.ips, ranges[r], r)
        IN /\ twice.count = 0
           /\ twice.ips = once.ips
           /\ SubSeq(once.ips, 1, Len(ips)) = ips
           /\ Materialized(ips, ranges[r]) => once.count = 0 /\ once.ips = ips

(* A range materialized by add_range (its gateway record exists) with one  *)
(* address assigned and released since                                     *)
C16_Witness ==
    /\ Len(ranges) = 1
    /\ Materialized(ips, ranges[1])
    /\ \E i \in 1..Len(ips) : ips[i].status = "gateway"
    /\ \E i \in 1..Len(ips) : ips[i].status = "quarantine"

(* C17: create_ips_for_range, for any range and any table, creates one     *)
(* record for every address of [start_ip, end_ip] the table does not hold, *)
(* creates none for an address it holds and none outside the interval (a   *)
(* gateway outside it gets no record), gives every new record the range's  *)
(* id, leaves the existing records alone, and returns the number created.  *)
C17_MaterializeInterval ==
    \A form \in MaterializeForms :
        validate_end_ip(form.start_ip, form.end_ip) =>
            LET rid == Len(ranges) + 1
                res == create_ips_for_range(ips, RangeOf(form), rid)
                created == SubSeq(res.ips, Len(ips) + 1, Len(res.ips))
                missing == {a \in Interval(RangeOf(form)) : IdsOf(ips, a) = {}}
            IN /\ SubSeq(res.ips, 1, Len(ips)) = ips
               /\ res.count = Len(created)
               /\ res.count = Cardinality(missing)
               /\ {created[k].address : k \in 1..Len(created)} = missing
               /\ \A k \in 1..Len(created) : created[k].ip_range_id = Some(rid)
               /\ \A a \in MaterializeAddrs \ Interval(RangeOf(form)) :
                     IdsOf(res.ips, a) = IdsOf(ips, a)

(* Two ranges materialized: the second overlaps the first, gets records of *)
(* its own for the addresses the first did not cover, and its gateway lies *)
(* outside its interval and has no record                                  *)
C17_Witness ==
    /\ Len(ranges) = 2
    /\ ranges[2].gateway # None
    /\ Val(ranges[2].gateway) \notin Interval(ranges[2])
    /\ IdsOf(ips, Val(ranges[2].gateway)) = {}
    /\ \E i \in 1..Len(ips) : ips[i].ip_range_id = Some(2)
    /\ \E i \in 1..Len(ips) : ips[i].ip_range_id = Some(1) /\ ips[i].address \in Interval(ranges[2])
    /\ Materialized(ips, ranges[2])

(* The classification of the address a in a range: gateway before network  *)
(* before broadcast before available, network and broadcast being those of *)
(* the block the range is filed under                                      *)
ExpectedStatus(ip_range, a) ==
    IF ip_range.gateway # None /\ a = Val(ip_range.gateway) THEN "gateway"
    ELSE IF a = ip_range.start_ip /\ a = NetworkAddress(ip_range.network) THEN "network"
    ELSE IF a = ip_range.end_ip /\ a = BroadcastAddress(ip_range.network) THEN "broadcast"
    ELSE "available"

(* C18: every record create_ips_for_range has created is classified gateway *)
(* if its address is the range's gateway; otherwise network if it is the   *)
(* interval's first address and the network address of the containing      *)
(* block; otherwise broadcast if it is the interval's last address and the *)
(* block's broadcast address; otherwise available.                         *)
C18_Classification ==
    \A i \in 1..Len(ips) :
        ips[i].status = ExpectedStatus(ranges[Val(ips[i].ip_range_id)], ips[i].address)

(* The records this step has newly written as assigned to the target *)
MovedToAssigned(target) ==
    {i \in 1..Len(ips') :
        /\ ips'[i].status = "assigned"
        /\ ips'[i].assigned_to_type = Some(target[1])
        /\ ips'[i].assigned_to_id = Some(target[2])
        /\ (i > Len(ips) \/ ips'[i] # ips[i])}

(* C19: every bulk assignment ends with its counts: each address of the    *)
(* expansion was attempted once, succeeded + failed is the number of       *)
(* addresses, and succeeded is the number of records the call moved to     *)
(* assigned for its device.                                                *)
C19_BulkCounts ==
    [][\A c \in Callers :
          (req[c].op = "bulk_assign" /\ Returned(c)) =>
             /\ req'[c].outcome = "complete"
             /\ req'[c].assigned_count + req'[c].failed_count = Len(req[c].ips_to_assign)
             /\ req'[c].assigned_count = Cardinality(MovedToAssigned(req[c].target))]_vars

(* C20: an assignment a bulk request has made to one address is kept       *)
(* whatever happens afterwards in the same request: when the request       *)
(* returns, the record it had assigned is stored as assigned to its device *)
(* and the ledger has the entry.                                           *)
C20_AssignmentsKept ==
    [][\A c \in Callers :
          (pc[c] = "bulk_flush" /\ Returned(c)) =>
             /\ loaded[c].id \in MovedToAssigned(req[c].target)
             /\ \E k \in (Len(hist) + 1)..Len(hist') :
                   hist'[k].ip_address_id = loaded[c].id /\ hist'[k].action = "assigned"]_vars

----------------------------------------------------------------------------
(* Properties of range membership, on-demand creation and validation *)

(* The address lies in the interval of a configured range *)
Covered(a) == \E r \in 1..Len(ranges) : ranges[r].start_ip <= a /\ a <= ranges[r].end_ip

(* C21: an address in no configured range is never materialized and never *)
(* assigned: no record has such an address and every ledger entry belongs  *)
(* to a record; assign_ip answers it with the out-of-range error and       *)
(* bulk_assign counts it as failed, and neither writes anything for it.    *)
C21_OutsideNeverMaterialized ==
    /\ [](/\ \A i \in 1..Len(ips) : Covered(ips[i].address)
          /\ \A k \in 1..Len(hist) : hist[k].ip_address_id \in 1..Len(ips))
    /\ [][\A c \in Callers :
             /\ (/\ pc[c] = "assign_find" /\ Stepped(c)
                 /\ ~Covered(req[c].address)) =>
                   /\ Returned(c) /\ req'[c].outcome = "out_of_range"
                   /\ ips' = ips /\ hist' = hist
             /\ (/\ pc[c] = "bulk_read" /\ Stepped(c)
                 /\ req[c].idx <= Len(req[c].ips_to_assign)
                 /\ ~Covered(req[c].ips_to_assign[req[c].idx])) =>
                   /\ req'[c].failed_count = req[c].failed_count + 1
                   /\ req'[c].assigned_count = req[c].assigned_count
                   /\ ips' = ips /\ hist' = hist
             /\ (/\ pc[c] \in {"bulk_insert", "bulk_flush"} /\ Returned(c)
                 /\ req'[c].outcome = "complete") =>
                   req'[c].failed_count >=
                      req[c].failed_count
                      + Cardinality({k \in req[c].idx..Len(req[c].ips_to_assign) :
                                        ~Covered(req[c].ips_to_assign[k])})]_vars

(* With the range configured, assign_ip has refused the address past its   *)
(* end and a bulk assignment over the range's last address and that one    *)
(* has assigned the first and failed the second: the only record is the    *)
(* one of the range's last address                                         *)
C21_Witness ==
    /\ Len(ranges) = 1
    /\ Len(ips) = 1 /\ ips[1].address = AddrHi - 1
    /\ ~Covered(AddrHi)
    /\ \E c \in Callers, d \in Callers :
          /\ pc[c] = "response" /\ req[c].op = "assign_ip"
          /\ req[c].outcome = "out_of_range" /\ req[c].address = AddrHi
          /\ pc[d] = "response" /\ req[d].op = "bulk_assign"
          /\ req[d].outcome = "complete"
          /\ req[d].assigned_count = 1 /\ req[d].failed_count = 1

(* Record i of the table after this step was created by it for address a,  *)
(* filed under a range that holds a, and is assigned to the target         *)
CreatedAssigned(i, a, target) ==
    /\ i > Len(ips) /\ i <= Len(ips')
    /\ ips'[i].address = a
    /\ ips'[i].ip_range_id # None
    /\ Val(ips'[i].ip_range_id) \in 1..Len(ranges)
    /\ ranges[Val(ips'[i].ip_range_id)].start_ip <= a
    /\ a <= ranges[Val(ips'[i].ip_range_id)].end_ip
    /\ ips'[i].status = "assigned"
    /\ ips'[i].assigned_to_type = Some(target[1])
    /\ ips'[i].assigned_to_id = Some(target[2])

(* C22: every record is filed under a range whose interval holds its       *)
(* address; assign_ip and bulk_assign, finding no record for an address    *)
(* that a range holds, go on to create one; and when the address still has *)
(* no record as they write, the record is created under such a range and   *)
(* assigned to the caller's device (in bulk: counted as succeeded).        *)
C22_OnDemandCreation ==
    /\ [](\A i \in 1..Len(ips) :
             /\ ips[i].ip_range_id # None
             /\ Val(ips[i].ip_range_id) \in 1..Len(ranges)
             /\ ranges[Val(ips[i].ip_range_id)].start_ip <= ips[i].address
             /\ ips[i].address <= ranges[Val(ips[i].ip_range_id)].end_ip)
    /\ [][\A c \in Callers :
             /\ (/\ pc[c] = "assign_find" /\ Stepped(c)
                 /\ IdsOf(ips, req[c].address) = {} /\ Covered(req[c].address)) =>
                   pc'[c] = "assign_create"
             /\ (/\ pc[c] = "assign_create" /\ Returned(c)
                 /\ IdsOf(ips, req[c].address) = {}) =>
                   /\ req'[c].outcome = "assigned"
                   /\ Len(ips') = Len(ips) + 1
                   /\ CreatedAssigned(Len(ips'), req[c].address,
                                      <<req[c].device_type, req[c].device_id>>)
             /\ (/\ pc[c] = "bulk_read" /\ Stepped(c)
                 /\ req[c].idx <= Len(req[c].ips_to_assign)
                 /\ IdsOf(ips, req[c].ips_to_assign[req[c].idx]) = {}
                 /\ Covered(req[c].ips_to_assign[req[c].idx])) =>
                   pc'[c] = "bulk_insert"
             /\ (/\ pc[c] \in {"bulk_insert", "bulk_flush"} /\ Returned(c)
                 /\ req'[c].outcome = "complete") =>
                   LET todo == {req[c].ips_to_assign[k] : k \in req[c].idx..Len(req[c].ips_to_assign)}
                       fresh == {a \in todo : IdsOf(ips, a) = {} /\ Covered(a)}
                   IN /\ \A a \in fresh :
                            \E i \in 1..Len(ips') : CreatedAssigned(i, a, req[c].target)
                      /\ Len(ips') = Len(ips) + Cardinality(fresh)
                      /\ req'[c].assigned_count >= req[c].assigned_count + Cardinality(fresh)]_vars

(* No address was pre-created; assign_ip has created and assigned one      *)
(* address and a bulk assignment has created and assigned the two others   *)
C22_Witness ==
    /\ Len(ranges) = 1
    /\ Len(ips) = 3
    /\ \A i \in 1..Len(ips) : ips[i].status = "assigned" /\ ips[i].ip_range_id = Some(1)
    /\ \E c \in Callers, d \in Callers :
          /\ pc[c] = "response" /\ req[c].op = "assign_ip" /\ req[c].outcome = "assigned"
          /\ pc[d] = "response" /\ req[d].op = "bulk_assign"
          /\ req[d].outcome = "complete" /\ req[d].assigned_count = 2

(* C23: a bulk range specification that passes validation expands to at    *)
(* most 1024 addresses, in the CIDR and in the start-end notation; a       *)
(* larger one is rejected, and a rejected form touches no address.         *)
C23_BulkCardinality ==
    /\ [](\A c \in Callers :
             (req[c].op = "bulk_assign" /\ pc[c] = "bulk_read") =>
                Len(req[c].ips_to_assign) <= 1024)
    /\ [][\A c \in Callers :
             (Returned(c) /\ req'[c].outcome = "invalid") =>
                ips' = ips /\ hist' = hist]_vars

(* Record i belongs to the scope the arguments of the answer r choose *)
InScope(i, r) ==
    IF r.pool_id # None THEN ips[i].ip_pool_id = r.pool_id
    ELSE IF r.vlan_id # None
    THEN \E q \in 1..Len(ranges) : ips[i].ip_range_id = Some(q) /\ ranges[q].vlan_id = r.vlan_id
    ELSE IF r.connection_type = "private"
    THEN IP(10, 10, 0, 0) <= ips[i].address /\ ips[i].address <= IP(10, 10, 255, 255)
    ELSE TRUE

C25_SuggestLowest ==
    [][\A c \in Callers :
          (Returned(c) /\ req'[c].op = "suggest" /\ req'[c].outcome = "found") =>
             \A i \in 1..Len(ips) :
                (ips[i].status = "available" /\ InScope(i, req'[c])) =>
                   req'[c].address <= ips[i].address]_vars

(* C26: check_duplicate_ip returns the record with the address if the      *)
(* table has one, whatever its status, and none otherwise; with an id to   *)
(* exclude it returns none when the record with the address is the         *)
(* excluded one, and the same record as without it otherwise.              *)
C26_CheckDuplicate ==
    \A a \in Addrs :
        LET existing == check_duplicate_ip(ips, a, 0)
        IN /\ existing # 0 <=> \E i \in 1..Len(ips) : ips[i].address = a
           /\ existing # 0 => existing \in 1..Len(ips) /\ ips[existing].address = a
           /\ \A x \in 1..Len(ips) :
                 check_duplicate_ip(ips, a, x) = IF ips[x].address = a THEN 0 ELSE existing

(* The table has records in quarantine and of the gateway, each found by   *)
(* its address, and assign_ip has been stopped by the lookup on the record *)
(* in quarantine                                                           *)
C26_Witness ==
    /\ \E i \in 1..Len(ips) :
          ips[i].status = "gateway" /\ check_duplicate_ip(ips, ips[i].address, 0) = i
    /\ \E c \in Callers :
          /\ pc[c] = "response" /\ req[c].op = "assign_ip" /\ req[c].outcome = "duplicate"
          /\ StatusOf(ips, req[c].address) = "quarantine"
          /\ check_duplicate_ip(ips, req[c].address, 0) # 0

(* The address a caller is about to INSERT a record for, 0 when its        *)
(* request is not at an INSERT                                             *)
Inserting(c) ==
    IF pc[c] = "assign_create" THEN req[c].address
    ELSE IF pc[c] = "bulk_insert" THEN req[c].ips_to_assign[req[c].idx]
    ELSE 0

(* C27: a caller whose INSERT of an address is refused by the unique index *)
(* because another caller committed a record for it after this caller's    *)
(* duplicate check is answered with the duplicate failure, not with the    *)
(* storage error, and the records and the ledger stay as the winner left   *)
(* them.                                                                   *)
C27_RaceLoserStructured ==
    [][\A c \in Callers :
          (Inserting(c) # 0 /\ UniqueViolation(ips, Inserting(c)) /\ Returned(c)) =>
              /\ req'[c].outcome = "duplicate"
              /\ ips' = ips
              /\ hist' = hist]_vars

(* The attributes the caller of assign may set *)
AllowList ==
    {"interface_name", "mac_address", "vps_hostname", "ptr_record", "notes", "is_primary"}

(* The keyword arguments without those outside the list *)
Allowed(kwargs) == [f \in DOMAIN kwargs \cap AllowList |-> kwargs[f]]

(* C28: whatever keyword arguments the caller passes, a successful assign  *)
(* leaves the record with status assigned, and every attribute outside the *)
(* allow-list (interface, MAC, hostname, PTR, notes, primary flag) is as   *)
(* the same assign leaves it without the arguments outside the list.       *)
C28_AttrsAllowListed ==
    [][\A c \in Callers :
          (Returned(c) /\ req'[c].op = "assign" /\ req'[c].outcome = "assigned") =>
              LET id == req'[c].id
                  engine == assign(ips[id], id, req'[c].device_type, req'[c].device_id,
                                   remote_addr, Allowed(req'[c].attrs), now).self
              IN /\ ips'[id].status = "assigned"
                 /\ ips'[id].assigned_to_id = Some(req'[c].device_id)
                 /\ \A f \in DOMAIN engine \ AllowList : ips'[id][f] = engine[f]]_vars

(* C29: an assign refused because of the quarantine reports the days left  *)
(* until quarantine_until, a started day counted as a day: 90 for an       *)
(* assign attempted less than a day after the release.                     *)
C29_RemainingReported ==
    [][\A c \in Callers :
          (Returned(c) /\ req'[c].op = "assign" /\ req'[c].outcome = "quarantine_active") =>
              LET ip == ips[req'[c].id]
                  left == Val(ip.quarantine_until) - now
              IN /\ (req'[c].remaining - 1) * TicksPerDay < left
                 /\ left <= req'[c].remaining * TicksPerDay
                 /\ now - Val(ip.release_date) < TicksPerDay
                       => req'[c].remaining = QUARANTINE_DAYS]_vars

(* C30: every stored range has start_ip <= end_ip: a form whose end        *)
(* address is before its start address is rejected and stores neither a    *)
(* range nor an address.                                                   *)
C30_RangeOrdered ==
    \A r \in 1..Len(ranges) : ranges[r].start_ip <= ranges[r].end_ip

LimitOf(r) ==
    IF r.ip # 0 \/ r.device_type # "" \/ r.device_id # 0 THEN FILTER_LIMIT ELSE RECENT_LIMIT

(* C32: the entries history shows are ordered most recent first            *)
(* (performed_at never increases along the result), are never more than    *)
(* the limit of the query, and with no filter are the most recent entries  *)
(* of the whole ledger: every entry left out is no more recent than any    *)
(* entry shown, and none is left out while there is room.                  *)
C32_HistoryOrdered ==
    \A c \in Callers :
        (pc[c] = "response" /\ req[c].op = "history") =>
            LET items == req[c].items
                shown == {items[p] : p \in 1..Len(items)}
            IN /\ \A p \in 1..(Len(items) - 1) :
                     hist[items[p]].performed_at >= hist[items[p + 1]].performed_at
               /\ Len(items) <= LimitOf(req[c])
               /\ Cardinality(shown) = Len(items)
               /\ shown \subseteq 1..Len(hist)
               /\ (req[c].ip = 0 /\ req[c].device_type = "" /\ req[c].device_id = 0) =>
                     /\ Len(items) = IF Len(hist) < RECENT_LIMIT THEN Len(hist) ELSE RECENT_LIMIT
                     /\ \A k \in (1..Len(hist)) \ shown : \A j \in shown :
                           hist[k].performed_at <= hist[j].performed_at

(* The unfiltered page of a ledger longer than the limit whose entries     *)
(* were not written in the order of their stamps                           *)
C32_Witness ==
    \E c \in Callers :
        /\ pc[c] = "response" /\ req[c].op = "history"
        /\ req[c].ip = 0 /\ req[c].device_type = "" /\ req[c].device_id = 0
        /\ Len(hist) > RECENT_LIMIT
        /\ Len(req[c].items) = RECENT_LIMIT
        /\ \E k \in 1..(Len(hist) - 1) : hist[k].performed_at > hist[k + 1].performed_at

(* The addresses a bulk request has still to process *)
Remaining(r) == {r.ips_to_assign[k] : k \in r.idx..Len(r.ips_to_assign)}

(* The ledger entries of a record *)
EntriesOf(h, id) ==
    LET OfRecord(e) == e.ip_address_id = id
    IN SelectSeq(h, OfRecord)

(* C33: bulk_assign writes nothing for an address it counts as failed.     *)
(* While it only reads it changes no record; when it writes and commits,   *)
(* every record of its list that is not available keeps every field        *)
(* (status, assignment target, assigned_by, assignment date, quarantine    *)
(* deadline) and its ledger entries, and the records it changed or created *)
(* are as many as the addresses it counts as assigned.                     *)
C33_BulkNeverOverwrites ==
    [][\A c \in Callers :
          /\ (pc[c] = "bulk_read" /\ Stepped(c)) => UNCHANGED <<ips, hist>>
          /\ (pc[c] \in {"bulk_insert", "bulk_flush"} /\ Returned(c)
              /\ req'[c].outcome = "complete") =>
                 /\ \A i \in 1..Len(ips) :
                       (ips[i].address \in Remaining(req[c]) /\ ips[i].status # "available"
                        /\ ~(pc[c] = "bulk_flush" /\ i = loaded[c].id)) =>
                           /\ ips'[i] = ips[i]
                           /\ EntriesOf(hist', i) = EntriesOf(hist, i)
                 /\ Cardinality({i \in 1..Len(ips') : i > Len(ips) \/ ips'[i] # ips[i]})
                       = req'[c].assigned_count - req[c].assigned_count]_vars

(* A bulk request over two addresses has assigned one and counted the      *)
(* other, assigned to the other caller's device, as failed: that record    *)
(* still names the other device                                            *)
C33_Witness ==
    \E c \in Callers :
        /\ pc[c] = "response" /\ req[c].op = "bulk_assign" /\ req[c].outcome = "complete"
        /\ req[c].assigned_count = 1 /\ req[c].failed_count = 1
        /\ Len(ips) = 2
        /\ \E i, j \in 1..Len(ips) :
              /\ ips[i].status = "assigned" /\ ips[i].assigned_to_id = Some(TargetOf(c)[2])
              /\ ips[i].address < AddrHi - 1
              /\ ips[j].status = "assigned" /\ ips[j].assigned_to_id # Some(TargetOf(c)[2])

(* C34: history asked for an address shows only ledger entries of that     *)
(* address's record; asked for an address that has no record it shows no   *)
(* entry of any other address.                                             *)
C34_HistoryOfAddress ==
    \A c \in Callers :
        (pc[c] = "response" /\ req[c].op = "history" /\ req[c].ip # 0) =>
            \A p \in 1..Len(req[c].items) :
                /\ FirstId(ips, req[c].ip) # 0
                /\ hist[req[c].items[p]].ip_address_id = FirstId(ips, req[c].ip)

(* C35: under every interleaving of assign_ip, bulk_assign, release_ip and *)
(* the sweep, no record has status assigned at a time strictly before the  *)
(* quarantine_until its last release into quarantine gave it.              *)
C35_QuarantineNotBypassed ==
    \A i \in 1..Len(ips) :
        (ips[i].status = "assigned" /\ ips[i].quarantine_until # None) =>
            now >= Val(ips[i].quarantine_until)

(* The 'assigned' and 'released' entries of a record, in append order *)
Tenancy(h, id) ==
    LET OfTenancy(e) == e.ip_address_id = id /\ e.action \in {"assigned", "released"}
    IN SelectSeq(h, OfTenancy)

(* C36: per record, the 'assigned' and 'released' entries of the ledger    *)
(* alternate in append order, starting with 'assigned', and each           *)
(* 'released' entry names the device type and id of the 'assigned' entry   *)
(* before it and carries the quarantine deadline or its absence.           *)
C36_LedgerAlternates ==
    \A i \in 1..Len(ips) :
        LET entries == Tenancy(hist, i)
        IN \A k \in 1..Len(entries) :
              IF k % 2 = 1
              THEN entries[k].action = "assigned"
              ELSE /\ entries[k].action = "released"
                   /\ entries[k].assigned_to_type = entries[k - 1].assigned_to_type
                   /\ entries[k].assigned_to_id = entries[k - 1].assigned_to_id
                   /\ entries[k].notes # None

(* C37: with the clock going on and the sweep run again and again, every   *)
(* record that is in quarantine leaves it (for available or assigned): no  *)
(* record stays in quarantine for ever.                                    *)
C37_QuarantineEnds ==
    \A i \in 1..Cardinality(Addrs) :
        (i <= Len(ips) /\ ips[i].status = "quarantine")
            ~> (i <= Len(ips) /\ ips[i].status # "quarantine")

(* A record released into quarantine after the clock had moved has been    *)
(* expired by a dashboard request at its deadline                          *)
C37_Witness ==
    \E i \in 1..Len(ips) :
        /\ ips[i].status = "available"
        /\ ips[i].release_date = Some(1)
        /\ now = 1 + QuarantineTicks
        /\ LedgerOf(hist, i) = <<"assigned", "released", "quarantine_expired">>
        /\ pc[2] = "response" /\ req[2].op = "sweep" /\ req[2].assigned_count = 1

(* C38: in every reachable state a record with status quarantine has a     *)
(* quarantine_until, and no assign has compared the clock with a missing   *)
(* deadline.                                                               *)
C38_QuarantineHasDeadline ==
    /\ \A i \in 1..Len(ips) : ips[i].status = "quarantine" => ips[i].quarantine_until # None
    /\ \A c \in Callers : pc[c] = "response" => req[c].outcome # "type_error"

(* An assign has compared the clock, half a day after the release, with    *)
(* the deadline of a record in quarantine and was refused                  *)
C38_Witness ==
    \E c \in Callers :
        /\ pc[c] = "response" /\ req[c].op = "assign_ip"
        /\ req[c].outcome = "quarantine_active"
        /\ now = 1
        /\ \E i \in 1..Len(ips) :
              /\ ips[i].address = req[c].address
              /\ ips[i].status = "quarantine"
              /\ ips[i].quarantine_until \in {Some(QuarantineTicks), Some(QuarantineTicks + 1)}

(* C39: for every record in quarantine and every instant t, the three      *)
(* expiry paths agree: with t < quarantine_until assign raises, the sweep  *)
(* does not select the record and the before_update hook leaves it in      *)
(* quarantine; with t >= quarantine_until assign succeeds, the sweep       *)
(* selects the record and the hook makes it available.                     *)
C39_PathsAgree ==
    \A i \in 1..Len(ips) :
        (ips[i].status = "quarantine" /\ ips[i].quarantine_until # None) =>
            \A t \in Instants :
                LET assigned == assign(ips[i], i, TargetOf(1)[1], TargetOf(1)[2],
                                       remote_addr, BulkKwargs, t)
                    swept == i \in ExpiredIds(ips, t)
                    hooked == ip_check_quarantine(ips[i], i, t).target
                IN IF t < Val(ips[i].quarantine_until)
                   THEN /\ assigned.raised = "quarantine_active"
                        /\ ~swept
                        /\ hooked = ips[i]
                   ELSE /\ assigned.raised = "ok" /\ assigned.self.status = "assigned"
                        /\ swept
                        /\ hooked.status = "available" /\ hooked.quarantine_until = None

(* assign_ip has assigned a record in quarantine at the very instant of    *)
(* its deadline                                                            *)
C39_Witness ==
    \E c \in Callers :
        /\ pc[c] = "response" /\ req[c].op = "assign_ip" /\ req[c].outcome = "assigned"
        /\ \E i \in 1..Len(ips) :
              /\ ips[i].address = req[c].address
              /\ ips[i].status = "assigned"
              /\ ips[i].assignment_date = Some(now)
              /\ ips[i].release_date # None
              /\ now = Val(ips[i].release_date) + QuarantineTicks

============================================================================
